---------------------------- MODULE Spec2Model ----------------------------
(***************************************************************************)
(* A model of Genesys.py: the multi-drop addressing cache, the textual     *)
(* command/response channel with its imperative/interrogative discipline,  *)
(* and the always-valid / presently-valid range checks of the programming  *)
(* methods.                                                                *)
(*                                                                         *)
(* Text is modelled as sequences of one-character strings, so that         *)
(* "command[-1]", "'ADR {}\r'.format(...)", "'{0:.3f}'.format(...)",       *)
(* "float(...)" and "replace('\r', '')" are computed, not assumed.         *)
(*                                                                         *)
(* Real numbers are decimal fixed point: an integer number of "ticks",     *)
(* Sub ticks per 0.001, i.e. GuardDigits decimal digits below what the     *)
(* wire format can carry.  The code's float expressions x / 0.95,          *)
(* x * 0.95, x / 1.05, x * 1.05 are compared on these decimals             *)
(* (0.95 = 19/20, 1.05 = 21/20); where two decimals are exactly equal, or  *)
(* a value lies half way between two wire values, binary rounding decides, *)
(* and the model takes either outcome.                                     *)
(***************************************************************************)
EXTENDS Integers, Sequences, FiniteSets, TLC

VARIABLES
    listening_addresses,  \* Genesys.listening_addresses: dict port -> address
    last_command,         \* self.last_command, per session
    last_response,        \* self.last_response, per session
    caps,                 \* self.VOL, self.CUR, self.OVP, self.UVL, per session
    serial_port,          \* the pySerial objects: baudrate, timeout and input buffer of each port
    dev,                  \* the supplies: programmed UVL, PV, PC, OVP of each device
    bus,                  \* per port: the address carried by the last ADR frame written
    prev,                 \* per port: the address of the session that issued the last command
    call,                 \* what the last completed call did (its frames, replies, outcome)
    pc,                   \* threads: position of each thread inside _write_command_read_response
    need,                 \* threads: the outcome of each thread's registry check
    alone,                \* threads: no two calls on a port have overlapped so far
    cmdWrite,             \* threads: who wrote the last command frame, and the bus address then
    proc                  \* the safe-configuration procedure: its target and position

vars == <<listening_addresses, last_command, last_response, caps, serial_port, dev,
          bus, prev, call, pc, need, alone, cmdWrite, proc>>

---------------------------------------------------------------------------
(* Text *)

CR == "\r"

Digit == <<"0", "1", "2", "3", "4", "5", "6", "7", "8", "9">>

IsDigit(ch) == \E i \in 1..10 : Digit[i] = ch

DigitVal(ch) == (CHOOSE i \in 1..10 : Digit[i] = ch) - 1

\* str(n) for a natural number: decimal digits, no padding
RECURSIVE IntToStr(_)
IntToStr(n) == IF n < 10 THEN <<Digit[n + 1]>>
               ELSE IntToStr(n \div 10) \o <<Digit[(n % 10) + 1]>>

\* the value of a sequence of digits
RECURSIVE DigitsVal(_)
DigitsVal(s) == IF s = <<>> THEN 0
                ELSE 10 * DigitsVal(SubSeq(s, 1, Len(s) - 1)) + DigitVal(s[Len(s)])

AllDigits(s) == \A i \in 1..Len(s) : IsDigit(s[i])

IsPrefix(p, s) == Len(p) <= Len(s) /\ SubSeq(s, 1, Len(p)) = p

\* str.replace(ch, '')
RECURSIVE Remove(_, _)
Remove(s, ch) == IF s = <<>> THEN <<>>
                 ELSE IF Head(s) = ch THEN Remove(Tail(s), ch)
                 ELSE <<Head(s)>> \o Remove(Tail(s), ch)

\* the index of the first occurrence of ch in s, 0 when there is none
IndexOf(s, ch) == IF \E i \in 1..Len(s) : s[i] = ch
                  THEN CHOOSE i \in 1..Len(s) : s[i] = ch /\ \A j \in 1..(i - 1) : s[j] # ch
                  ELSE 0

\* str.upper() for the letters a..z
upper(text) ==
    LET lower == <<"a", "b", "c", "d", "e", "f", "g", "h", "i", "j", "k", "l", "m",
                   "n", "o", "p", "q", "r", "s", "t", "u", "v", "w", "x", "y", "z">>
        UPPER == <<"A", "B", "C", "D", "E", "F", "G", "H", "I", "J", "K", "L", "M",
                   "N", "O", "P", "Q", "R", "S", "T", "U", "V", "W", "X", "Y", "Z">>
        up(ch) == IF \E i \in 1..Len(lower) : lower[i] = ch
                  THEN UPPER[CHOOSE i \in 1..Len(lower) : lower[i] = ch] ELSE ch
    IN  [i \in 1..Len(text) |-> up(text[i])]

OK == <<"O", "K">>

---------------------------------------------------------------------------
(* Numbers *)

\* '{0:.3f}': digits after the decimal point on the wire
DECIMALS == 3

\* decimal digits the model keeps below the wire's resolution
GuardDigits == 1

RECURSIVE Pow10(_)
Pow10(n) == IF n = 0 THEN 1 ELSE 10 * Pow10(n - 1)

Sub == Pow10(GuardDigits)               \* ticks per 0.001

One == Pow10(DECIMALS) * Sub            \* ticks per 1.0

milli(m) == m * Sub                     \* the number m / 1000

\* s padded on the left with "0" to n characters
RECURSIVE ZeroPad(_, _)
ZeroPad(s, n) == IF Len(s) >= n THEN s ELSE ZeroPad(<<"0">> \o s, n)

\* the text of q / 10^DECIMALS with exactly DECIMALS digits after the point
Fixed(q) == IntToStr(q \div Pow10(DECIMALS)) \o <<".">>
            \o ZeroPad(IntToStr(q % Pow10(DECIMALS)), DECIMALS)

\* a format that drops the digits after the third instead of rounding
FormatTruncated(v, up) == Fixed(v \div Sub)

\* Genesys.FORMAT.format(v), v >= 0.  A decimal that lies exactly half way
\* between two wire values is rounded by its binary representation, to
\* either neighbour: up tells which.
FORMAT(v, up) ==
    LET q == v \div Sub
        r == v % Sub
    IN  IF 2 * r < Sub THEN Fixed(q)
        ELSE IF 2 * r > Sub THEN Fixed(q + 1)
        ELSE IF up THEN Fixed(q + 1) ELSE Fixed(q)

\* float(s) for the texts of the model: digits, optionally a point and up to
\* DECIMALS + GuardDigits more digits; anything else raises ValueError
ParseFloat(s) ==
    LET dot == IndexOf(s, ".")
        ip  == IF dot = 0 THEN s ELSE SubSeq(s, 1, dot - 1)
        fp  == IF dot = 0 THEN <<>> ELSE SubSeq(s, dot + 1, Len(s))
        n   == DECIMALS + GuardDigits
    IN  IF /\ Len(ip) + Len(fp) > 0
           /\ AllDigits(ip) /\ AllDigits(fp)
           /\ Len(fp) <= n
        THEN [ok |-> TRUE,
              val |-> DigitsVal(ip) * One + DigitsVal(fp) * Pow10(n - Len(fp))]
        ELSE [ok |-> FALSE, val |-> 0]

\* The code's comparisons against 95 % and 105 % of a live value.  Away from
\* equality the binary result is the decimal one; where the two decimals are
\* exactly equal the binary quotient or product falls on either side
\* (3 * 0.95 < 2.85 but 19 * 0.95 = 18.05), and tie tells on which; a
\* quotient or product of 0 is exact.
\* the three comparisons with the factor on the wrong side
LeMul105(a, b, tie) == a * 20 <= b * 21
Mul95Le(a, b, tie) == a * 19 <= b * 20
LeMul105Under(a, b, tie) == a * 20 < b * 21

\* a / 0.95 <= b
DivLe95(a, b, tie) == a * 20 < b * 19 \/ (a * 20 = b * 19 /\ (tie \/ a = 0))
\* a <= b / 1.05
LeDiv105(a, b, tie) == a * 21 < b * 20 \/ (a * 21 = b * 20 /\ (tie \/ b = 0))
\* a * 1.05 <= b
Mul105Le(a, b, tie) == a * 21 < b * 20 \/ (a * 21 = b * 20 /\ (tie \/ a = 0))
\* a <= b * 0.95
LeMul95(a, b, tie) == a * 20 < b * 19 \/ (a * 20 = b * 19 /\ (tie \/ b = 0))

---------------------------------------------------------------------------
(* Class attributes *)

ADDRESS_RANGE == 0..30

BAUD_RATES == {1200, 2400, 4800, 9600, 19200}

\* 'GEN{}-XY'.format(v)
ModelKey(v) == <<"G", "E", "N">> \o v \o <<"-", "X", "Y">>

\* Genesys Manual Table 7.6
OVPs ==
    ModelKey(<<"6">>)                :> [min |-> milli(500),  MAX |-> milli(7500)]   @@
    ModelKey(<<"8">>)                :> [min |-> milli(500),  MAX |-> milli(10000)]  @@
    ModelKey(<<"1", "2", ".", "5">>) :> [min |-> milli(1000), MAX |-> milli(15000)]  @@
    ModelKey(<<"2", "0">>)           :> [min |-> milli(1000), MAX |-> milli(24000)]  @@
    ModelKey(<<"3", "0">>)           :> [min |-> milli(2000), MAX |-> milli(36000)]  @@
    ModelKey(<<"4", "0">>)           :> [min |-> milli(2000), MAX |-> milli(44000)]  @@
    ModelKey(<<"6", "0">>)           :> [min |-> milli(5000), MAX |-> milli(66000)]  @@
    ModelKey(<<"8", "0">>)           :> [min |-> milli(5000), MAX |-> milli(88000)]  @@
    ModelKey(<<"1", "0", "0">>)      :> [min |-> milli(5000), MAX |-> milli(110000)] @@
    ModelKey(<<"1", "5", "0">>)      :> [min |-> milli(5000), MAX |-> milli(165000)] @@
    ModelKey(<<"3", "0", "0">>)      :> [min |-> milli(5000), MAX |-> milli(330000)] @@
    ModelKey(<<"6", "0", "0">>)      :> [min |-> milli(5000), MAX |-> milli(660000)]

\* Genesys Manual Table 7.7
UVLs ==
    ModelKey(<<"6">>)                :> [min |-> milli(0), MAX |-> milli(5700)]   @@
    ModelKey(<<"8">>)                :> [min |-> milli(0), MAX |-> milli(7600)]   @@
    ModelKey(<<"1", "2", ".", "5">>) :> [min |-> milli(0), MAX |-> milli(11900)]  @@
    ModelKey(<<"2", "0">>)           :> [min |-> milli(0), MAX |-> milli(19000)]  @@
    ModelKey(<<"3", "0">>)           :> [min |-> milli(0), MAX |-> milli(28500)]  @@
    ModelKey(<<"4", "0">>)           :> [min |-> milli(0), MAX |-> milli(38000)]  @@
    ModelKey(<<"6", "0">>)           :> [min |-> milli(0), MAX |-> milli(57000)]  @@
    ModelKey(<<"8", "0">>)           :> [min |-> milli(0), MAX |-> milli(76000)]  @@
    ModelKey(<<"1", "0", "0">>)      :> [min |-> milli(0), MAX |-> milli(95000)]  @@
    ModelKey(<<"1", "5", "0">>)      :> [min |-> milli(0), MAX |-> milli(142000)] @@
    ModelKey(<<"3", "0", "0">>)      :> [min |-> milli(0), MAX |-> milli(285000)] @@
    ModelKey(<<"6", "0", "0">>)      :> [min |-> milli(0), MAX |-> milli(570000)]

---------------------------------------------------------------------------
(* The sessions of the model and the supplies they talk to *)

Ports == {"COM4", "COM5"}

\* one Genesys object per supply: two supplies share COM4
Sessions == {[port |-> "COM4", address |-> 0],
             [port |-> "COM4", address |-> 30],
             [port |-> "COM5", address |-> 30]}

NoAddress == -1

NONE == <<"None">>

ADR_ == <<"A", "D", "R", " ">>
IDNq == <<"I", "D", "N", "?">>
PVq  == <<"P", "V", "?">>
PCq  == <<"P", "C", "?">>
OVPq == <<"O", "V", "P", "?">>
UVLq == <<"U", "V", "L", "?">>
PV_  == <<"P", "V", " ">>
PC_  == <<"P", "C", " ">>
OVP_ == <<"O", "V", "P", " ">>
UVL_ == <<"U", "V", "L", " ">>
RMT_LLO == <<"R", "M", "T", " ", "L", "L", "O">>

\* the identity string of a supply of voltage class v and current class a
Identity(v, a) == <<"L", "A", "M", "B", "D", "A", ",", "G", "E", "N">> \o v \o <<"-">> \o a

IsADR(frame) == IsPrefix(ADR_, frame)

\* the address an ADR frame carries
AdrOf(frame) == DigitsVal(SubSeq(frame, Len(ADR_) + 1, Len(frame) - 1))

\* the numeric argument of a programming frame "TOKEN x\r"
ArgOf(token, frame) == ParseFloat(SubSeq(frame, Len(token) + 1, Len(frame) - 1)).val

\* What the addressed supply sends back for a frame: nothing for a frame
\* without terminator, its identity or a programmed value for those queries,
\* some payload for any other query, "OK" for anything else.
DeviceReply(d, frame) ==
    IF frame = <<>> \/ frame[Len(frame)] # CR THEN <<>>
    ELSE LET body == SubSeq(frame, 1, Len(frame) - 1)
         IN  IF body = IDNq THEN d.idn \o <<CR>>
             ELSE IF body = PVq  THEN Fixed(d.PV \div Sub) \o <<CR>>
             ELSE IF body = PCq  THEN Fixed(d.PC \div Sub) \o <<CR>>
             ELSE IF body = OVPq THEN Fixed(d.OVP \div Sub) \o <<CR>>
             ELSE IF body = UVLq THEN Fixed(d.UVL \div Sub) \o <<CR>>
             ELSE IF body = <<"M", "D", "A", "V", "?">>
                  THEN (IF d.MD THEN <<"1", CR>> ELSE <<"0", CR>>)
             ELSE IF body # <<>> /\ body[Len(body)] = "?" THEN <<"0", CR>>
             ELSE OK \o <<CR>>

\* The supply accepts each programming frame and keeps the value written.
DeviceStep(d, frame) ==
    IF frame = <<>> \/ frame[Len(frame)] # CR THEN d
    ELSE IF IsPrefix(PV_, frame)  THEN [d EXCEPT !.PV  = ArgOf(PV_, frame)]
    ELSE IF IsPrefix(PC_, frame)  THEN [d EXCEPT !.PC  = ArgOf(PC_, frame)]
    ELSE IF IsPrefix(OVP_, frame) THEN [d EXCEPT !.OVP = ArgOf(OVP_, frame)]
    ELSE IF IsPrefix(UVL_, frame) THEN [d EXCEPT !.UVL = ArgOf(UVL_, frame)]
    ELSE d

---------------------------------------------------------------------------
(* The state one call works on.  A call is a pure function of this record:  *)
(*   la, lc, lr   listening_addresses, self.last_command, self.last_response *)
(*   caps         self.VOL, self.CUR, self.OVP, self.UVL                     *)
(*   port         self.serial_port.port                                      *)
(*   d, b         the supplies; the address of the port's last ADR frame     *)
(*   wire, rx     the frames written and the lines read by this call         *)
(*   pend         the supply's answer to the last frame written              *)
(*   flt          the environment: read number flt.at yields flt.reply       *)
(*   rnd          the environment: how binary rounding falls at decimal ties *)
(*   num          the number a getter returned                               *)
(*   timeout      serial_port.timeout                                        *)
(*   log          the writes, sleeps, reads and timeout changes, in order    *)
(*   exc, msg     the exception the call raised ("none"), and its message    *)
(*   ret          the value returned                                         *)

NoFault == [at |-> 0, reply |-> <<>>]

\* what a faulty line can be: nothing at all (timeout), or the wrong kind of reply
FaultReplies == {<<>>, OK \o <<CR>>}

Faults(n) == {NoFault} \cup {[at |-> k, reply |-> r] : k \in 1..n, r \in FaultReplies}

\* rounding at ties: up for FORMAT, lo and hi for the first and the second
\* comparison of a presently-valid check
Roundings == [up : BOOLEAN, lo : BOOLEAN, hi : BOOLEAN]

Exact == [up |-> FALSE, lo |-> TRUE, hi |-> TRUE]

Ctx(s, flt, rnd) ==
    [la |-> listening_addresses, lc |-> last_command[s], lr |-> last_response[s],
     port |-> s.port, d |-> dev, b |-> bus[s.port], wire |-> <<>>, rx |-> <<>>,
     pend |-> <<>>, caps |-> caps[s], flt |-> flt, rnd |-> rnd, exc |-> "none",
     msg |-> "", ret |-> NONE, num |-> 0,
     timeout |-> serial_port[s.port].timeout, log |-> <<>>]

Raise(c, e, m) == [c EXCEPT !.exc = e, !.msg = m, !.ret = NONE]

Return(c, v) == [c EXCEPT !.ret = v]

\* the supply that listens on a port once the frame is on it: the one the
\* last ADR frame named
Listener(port, b, frame) ==
    [port |-> port, address |-> IF IsADR(frame) THEN AdrOf(frame) ELSE b]

\* serial_port.write(frame): the frame goes out; the listening supply, if
\* there is one, acts on it and answers
Write(c, frame) ==
    IF Listener(c.port, c.b, frame) \in Sessions
    THEN [c EXCEPT !.wire = Append(@, frame),
                   !.log  = Append(@, "write"),
                   !.b    = Listener(c.port, c.b, frame).address,
                   !.pend = DeviceReply(c.d[Listener(c.port, c.b, frame)], frame),
                   !.d    = [@ EXCEPT ![Listener(c.port, c.b, frame)] = DeviceStep(@, frame)]]
    ELSE [c EXCEPT !.wire = Append(@, frame),
                   !.log  = Append(@, "write"),
                   !.b    = Listener(c.port, c.b, frame).address,
                   !.pend = <<>>]

\* serial_port.readline()
ReadLine(c) == IF Len(c.rx) + 1 = c.flt.at THEN c.flt.reply ELSE c.pend

_read_response(c) ==
    [c EXCEPT !.rx  = Append(@, ReadLine(c)),
              !.log = Append(@, "read"),
              !.lr  = Remove(ReadLine(c), CR),
              !.ret = Remove(ReadLine(c), CR)]

\* a raise that an exception raised on the way to c pre-empts
RaiseAfter(c, e, m) == IF c.exc # "none" THEN c ELSE Raise(c, e, m)

\* a registry check that looks for the port only, not at the address stored
NeedsAddressingOnce(la, s) == s.port \notin DOMAIN la

\* the registry check of _write_command_read_response
NeedsAddressing(la, s) == (s.port \notin DOMAIN la) \/ (la[s.port] # s.address)

\* an update that keeps the entry a port already has
UpdateIfAbsent(la, port, address) == la @@ (port :> address)

\* an update that forgets the entries of the other ports
UpdateReset(la, port, address) == (port :> address)

\* listening_addresses.update({port : address})
Update(la, port, address) == (port :> address) @@ la

\* an addressing frame that names address 0 whatever the session's address
AdrFrameZero(address) == ADR_ \o IntToStr(0) \o <<CR>>

\* 'ADR {}\r'.format(self.address)
AdrFrame(address) == ADR_ \o IntToStr(address) \o <<CR>>

\* a write that leaves self.last_command as it was
SendUnrecorded(c, frame) == [Write(c, frame) EXCEPT !.log = Append(@, "sleep 0.150")]

\* a write that does not wait for the supply to turn the line around
SendUnsettled(c, frame) == [Write(c, frame) EXCEPT !.lc = frame]

\* serial_port.write(frame); time.sleep(0.150); self.last_command = frame
Send(c, frame) == [Write(c, frame) EXCEPT !.lc = frame, !.log = Append(@, "sleep 0.150")]

\* an addressing that goes on whatever the reply to the ADR frame
AssertAddressedAny(c) == c

\* assert self._read_response() == 'OK', after the ADR frame
AssertAddressed(c) == IF c.ret = OK THEN c ELSE Raise(c, "AssertionError", "ADR")

\* an addressing that updates the registry and writes no frame
AddressingSilent(c, s) == [c EXCEPT !.la = Update(c.la, s.port, s.address)]

\* the addressing half of _write_command_read_response
Addressing(c, s) ==
    AssertAddressed(_read_response(
        Send([c EXCEPT !.la = Update(c.la, s.port, s.address)], AdrFrame(s.address))))

\* the command half of _write_command_read_response
Command(c, command) ==
    IF c.exc # "none" THEN c ELSE _read_response(Send(c, command))

_write_command_read_response(c, s, command) ==
    Command(IF NeedsAddressing(c.la, s) THEN Addressing(c, s) ELSE c, command)

\* an imperative that takes any reply
AcceptAnyReply(c) == IF c.exc # "none" THEN c ELSE Return(c, NONE)

\* assert self._write_command_read_response(...) == 'OK'; return None
AssertOK(c) ==
    IF c.exc # "none" THEN c
    ELSE IF c.ret # OK THEN Raise(c, "AssertionError", "reply")
    ELSE Return(c, NONE)

\* assert self._write_command_read_response(...) != 'OK'; return self.last_response
AssertNotOK(c) ==
    IF c.exc # "none" THEN c
    ELSE IF c.ret = OK THEN Raise(c, "AssertionError", "reply")
    ELSE Return(c, c.lr)

\* an imperative without the check of the command's last character
imperative_unchecked(c, s, command) ==
    IF c.exc # "none" THEN c
    ELSE AssertOK(_write_command_read_response(c, s, command \o <<CR>>))

command_imperative(c, s, command) ==
    IF c.exc # "none" THEN c
    ELSE IF command = <<>> THEN Raise(c, "IndexError", "")
    ELSE IF command[Len(command)] = "?" THEN Raise(c, "AssertionError", "discipline")
    ELSE AssertOK(_write_command_read_response(c, s, command \o <<CR>>))

command_interrogative(c, s, command) ==
    IF c.exc # "none" THEN c
    ELSE IF command = <<>> THEN Raise(c, "IndexError", "")
    ELSE IF command[Len(command)] # "?" THEN Raise(c, "AssertionError", "discipline")
    ELSE AssertNotOK(_write_command_read_response(c, s, command \o <<CR>>))

repeat_last_command(c, s) == _write_command_read_response(c, s, <<"\\">>)

---------------------------------------------------------------------------
(* Getters and the programming methods *)

\* float(text), text the string a query returned in c
ToFloat(c) ==
    IF c.exc # "none" THEN c
    ELSE IF ~ParseFloat(c.ret).ok THEN Raise(c, "ValueError", "float")
    ELSE [c EXCEPT !.num = ParseFloat(c.ret).val]

\* a getter that reads the over-voltage protection in place of the voltage
get_wrong_register(c, s) == ToFloat(command_interrogative(c, s, OVPq))

get_voltage_programmed(c, s) == ToFloat(command_interrogative(c, s, PVq))

get_over_voltage_protection(c, s) == ToFloat(command_interrogative(c, s, OVPq))

get_under_voltage_limit(c, s) == ToFloat(command_interrogative(c, s, UVLq))

IsReal(a) == a.type \in {"int", "float"}

\* an envelope check without the lower end
BelowMAX(r, x) == x <= r.MAX

InRange(r, x) == r.min <= x /\ x <= r.MAX

\* raise ValueError('... must *presently* be in range [{}..{}]'.format(UVL? / 0.95, OVP? / 1.05))
VoltagePresently(c, s) ==
    RaiseAfter(get_over_voltage_protection(get_under_voltage_limit(c, s), s),
               "ValueError", "presently")

\* ... <= volts <= self.get_over_voltage_protection() / 1.05, c the state after OVP?
VoltageUpper(c, s, volts) ==
    IF c.exc # "none" THEN c
    ELSE IF ~LeDiv105(volts.val, c.num, c.rnd.hi) THEN VoltagePresently(c, s)
    ELSE command_imperative(c, s, PV_ \o FORMAT(volts.val, c.rnd.up))

\* self.get_under_voltage_limit() / 0.95 <= volts <= ..., c the state after UVL?;
\* the chained comparison reads OVP? only when its first half holds
VoltageLower(c, s, volts) ==
    IF c.exc # "none" THEN c
    ELSE IF ~DivLe95(c.num, volts.val, c.rnd.lo) THEN VoltagePresently(c, s)
    ELSE VoltageUpper(get_over_voltage_protection(c, s), s, volts)

program_voltage(c, s, volts) ==
    IF ~IsReal(volts) THEN Raise(c, "TypeError", "")
    ELSE IF ~InRange(c.caps.VOL, volts.val) THEN Raise(c, "ValueError", "always")
    ELSE VoltageLower(get_under_voltage_limit(c, s), s, volts)

program_amperage(c, s, amperes) ==
    IF ~IsReal(amperes) THEN Raise(c, "TypeError", "")
    ELSE IF ~InRange(c.caps.CUR, amperes.val) THEN Raise(c, "ValueError", "always")
    ELSE command_imperative(c, s, PC_ \o FORMAT(amperes.val, c.rnd.up))

\* self.get_voltage_programmed() * 1.05 <= volts <= self.OVP['MAX'], c the state after PV?
OverVoltagePresently(c, s, volts) ==
    IF c.exc # "none" THEN c
    ELSE IF ~(Mul105Le(c.num, volts.val, c.rnd.lo) /\ volts.val <= c.caps.OVP.MAX)
         THEN RaiseAfter(get_voltage_programmed(c, s), "ValueError", "presently")
    ELSE command_imperative(c, s, OVP_ \o FORMAT(volts.val, c.rnd.up))

program_over_voltage_protection(c, s, volts) ==
    IF ~IsReal(volts) THEN Raise(c, "TypeError", "")
    ELSE IF ~InRange(c.caps.OVP, volts.val) THEN Raise(c, "ValueError", "always")
    ELSE OverVoltagePresently(get_voltage_programmed(c, s), s, volts)

\* self.UVL['min'] <= volts <= self.get_voltage_programmed() * 0.95, c the state after PV?
UnderVoltagePresently(c, s, volts) ==
    IF c.exc # "none" THEN c
    ELSE IF ~LeMul95(volts.val, c.num, c.rnd.hi)
         THEN RaiseAfter(get_voltage_programmed(c, s), "ValueError", "presently")
    ELSE command_imperative(c, s, UVL_ \o FORMAT(volts.val, c.rnd.up))

program_under_voltage_limit(c, s, volts) ==
    IF ~IsReal(volts) THEN Raise(c, "TypeError", "")
    ELSE IF ~InRange(c.caps.UVL, volts.val) THEN Raise(c, "ValueError", "always")
    ELSE IF ~(c.caps.UVL.min <= volts.val)
         THEN RaiseAfter(get_voltage_programmed(c, s), "ValueError", "presently")
    ELSE UnderVoltagePresently(get_voltage_programmed(c, s), s, volts)

---------------------------------------------------------------------------
(* Construction *)

NoCaps == [made |-> FALSE,
           VOL |-> [min |-> 0, MAX |-> 0], CUR |-> [min |-> 0, MAX |-> 0],
           OVP |-> [min |-> 0, MAX |-> 0], UVL |-> [min |-> 0, MAX |-> 0]]

PyInt(n) == [type |-> "int", val |-> n]

PyFloat(x) == [type |-> "float", val |-> x]

PyStr(n) == [type |-> "str", val |-> n]

\* a validation of the type only
validate_type(address) == IF address.type # "int" THEN "TypeError" ELSE "none"

\* the exception validate_address raises, "none" when it raises none
validate_address(address) ==
    IF address.type # "int" THEN "TypeError"
    ELSE IF address.val \notin ADDRESS_RANGE THEN "ValueError"
    ELSE "none"

\* idn.index('GEN'), 1-based; 0 when 'GEN' is not in idn
IndexOfGEN(idn) ==
    LET hit(i) == SubSeq(idn, i, i + 2) = <<"G", "E", "N">>
    IN  IF \E i \in 1..(Len(idn) - 2) : hit(i)
        THEN CHOOSE i \in 1..(Len(idn) - 2) : hit(i) /\ \A j \in 1..(i - 1) : ~hit(j)
        ELSE 0

\* idn[idn.index('GEN') + 3 :]
AfterGEN(idn) == SubSeq(idn, IndexOfGEN(idn) + 3, Len(idn))

\* an envelope that reads each limit from the other table
CapabilitiesSwapped(v, a) ==
    [made |-> TRUE,
     VOL |-> [min |-> 0, MAX |-> ParseFloat(v).val],
     CUR |-> [min |-> 0, MAX |-> ParseFloat(a).val],
     OVP |-> UVLs[ModelKey(v)],
     UVL |-> OVPs[ModelKey(v)]]

\* self.VOL, self.CUR, self.OVP, self.UVL of a supply 'GEN{v}-{a}'
Capabilities(v, a) ==
    [made |-> TRUE,
     VOL |-> [min |-> 0, MAX |-> ParseFloat(v).val],
     CUR |-> [min |-> 0, MAX |-> ParseFloat(a).val],
     OVP |-> OVPs[ModelKey(v)],
     UVL |-> UVLs[ModelKey(v)]]

\* lines 86-90 of __init__, v and a the two halves of the identity
SetEnvelope(c, v, a) ==
    IF ~ParseFloat(v).ok \/ ~ParseFloat(a).ok THEN Raise(c, "ValueError", "float")
    ELSE IF ModelKey(v) \notin DOMAIN OVPs THEN Raise(c, "KeyError", "")
    ELSE [c EXCEPT !.ret = NONE, !.caps = Capabilities(v, a)]

\* lines 83-85 of __init__, rest the identity after 'GEN'
SplitIdentity(c, rest) ==
    IF IndexOf(rest, "-") = 0 THEN Raise(c, "ValueError", "index")
    ELSE SetEnvelope(c, SubSeq(rest, 1, IndexOf(rest, "-") - 1),
                        SubSeq(rest, IndexOf(rest, "-") + 1, Len(rest)))

\* lines 82-90 of __init__, c the state after get_identity()
Envelope(c) ==
    IF c.exc # "none" THEN c
    ELSE IF IndexOfGEN(c.ret) = 0 THEN Raise(c, "ValueError", "index")
    ELSE SplitIdentity(c, AfterGEN(c.ret))

\* a constructor that also resets the supply
init_with_reset(c, address, sp, s) ==
    IF validate_address(address) # "none" THEN Raise(c, validate_address(address), "address")
    ELSE IF sp.baudrate \notin BAUD_RATES THEN Raise(c, "ValueError", "baud")
    ELSE Envelope(command_interrogative(
             command_imperative(
                 command_imperative([c EXCEPT !.lc = <<>>, !.lr = <<>>], s, RMT_LLO),
                 s, <<"R", "S", "T">>),
             s, IDNq))

\* Genesys(address, serial_port), for the session s it creates
__init__(c, address, sp, s) ==
    IF validate_address(address) # "none" THEN Raise(c, validate_address(address), "address")
    ELSE IF sp.baudrate \notin BAUD_RATES THEN Raise(c, "ValueError", "baud")
    ELSE Envelope(command_interrogative(                       \* get_identity()
             command_imperative([c EXCEPT !.lc = <<>>, !.lr = <<>>], s, RMT_LLO),
             s, IDNq))

---------------------------------------------------------------------------
(* Fast queries and group commands, the static methods.  A byte is a number *)
(* 0..255, a bytes object the record [type |-> "bytes", val |-> <<...>>].   *)

\* What a supply answers to a fast query: the data, '$', the two hex digits
\* of the checksum of the data, '\r'.  The data are '1' or '0' (multi-drop
\* enabled or not) for 0xAA, eight hex digits for 0xA6, and six registers of
\* two hex digits for the register query; here all digits are '0'.
FastReply(d, query) ==
    IF query[1] = 170
    THEN IF d.MD THEN <<49, 36, 51, 49, 13>> ELSE <<48, 36, 51, 48, 13>>
    ELSE IF query[1] = 166
    THEN [i \in 1..8 |-> 48] \o <<36, 56, 48, 13>>
    ELSE [i \in 1..12 |-> 48] \o <<36, 52, 48, 13>>

\* a write of a fast query that records the address it probes in the registry
FastWriteRegistering(c, query) ==
    [c EXCEPT !.wire = Append(@, query),
              !.log  = Append(@, "write"),
              !.la   = Update(@, c.port, query[2] % 128),
              !.pend = <<>>]

\* serial_port.write(query): the supply whose address the payload carries
\* answers, whichever supply the bus is addressed to
FastWrite(c, query) ==
    [c EXCEPT !.wire = Append(@, query),
              !.log  = Append(@, "write"),
              !.pend = IF [port |-> c.port, address |-> query[2] % 128] \in Sessions
                       THEN FastReply(c.d[[port |-> c.port, address |-> query[2] % 128]],
                                      query)
                       ELSE <<>>]

\* time.sleep(0.030); response = serial_port.read_until('\r', expected_bytes),
\* n the number of bytes that have arrived by then.  The terminator is passed
\* as a str, which equals no bytes: the read ends on expected_bytes or when
\* nothing more has arrived.
ReadUntil(c, expected_bytes, n) ==
    LET m   == IF n < expected_bytes THEN n ELSE expected_bytes
        got == SubSeq(c.pend, 1, IF Len(c.pend) < m THEN Len(c.pend) ELSE m)
    IN  [c EXCEPT !.rx  = Append(@, got),
                  !.log = Append(Append(@, "sleep 0.030"), "read"),
                  !.ret = [type |-> "bytes", val |-> got]]

\* a fast query that leaves the port with the timeout it set
_fast_query_unrestored(c, address, query, expected_bytes, n) ==
    IF validate_address(address) # "none" THEN Raise(c, validate_address(address), "address")
    ELSE ReadUntil(FastWrite([c EXCEPT !.timeout = 0, !.log = Append(@, "timeout = 0")],
                             query),
                   expected_bytes, n)

\* a fast query that looks at the address after the exchange
_fast_query_late(c, address, query, expected_bytes, n) ==
    IF validate_address(address) # "none"
    THEN Raise(ReadUntil(FastWrite([c EXCEPT !.timeout = 0, !.log = Append(@, "timeout = 0")],
                                   query),
                         expected_bytes, n),
               validate_address(address), "address")
    ELSE [ReadUntil(FastWrite([c EXCEPT !.timeout = 0, !.log = Append(@, "timeout = 0")],
                              query),
                    expected_bytes, n)
            EXCEPT !.timeout = c.timeout, !.log = Append(@, "timeout = to")]

_fast_query(c, address, query, expected_bytes, n) ==
    IF validate_address(address) # "none" THEN Raise(c, validate_address(address), "address")
    ELSE [ReadUntil(FastWrite([c EXCEPT !.timeout = 0, !.log = Append(@, "timeout = 0")],
                              query),
                    expected_bytes, n)
            EXCEPT !.timeout = c.timeout, !.log = Append(@, "timeout = to")]

\* return Genesys._fast_query(...) is None.  bytes([0xAA, address]) raises
\* for the addresses validate_address raises TypeError for.
is_responsive(c, address, n) ==
    LET r == _fast_query(c, address, <<170, address.val>>, 5, n)
    IN  IF r.exc # "none" THEN r
        ELSE Return(r, [type |-> "bool", val |-> r.ret.type = "NoneType"])

\* a probe that takes any first byte for the multi-drop marker
is_multi_drop_any(c, address, n) ==
    LET r == _fast_query(c, address, <<170, address.val>>, 5, n)
    IN  IF r.exc # "none" THEN r
        ELSE IF r.ret.type = "NoneType" THEN Return(r, [type |-> "bool", val |-> FALSE])
        ELSE IF r.ret.val = <<>> THEN Raise(r, "IndexError", "")
        ELSE Return(r, [type |-> "bool", val |-> TRUE])

\* if response is None: return False; return response[0] == 0x31
is_multi_drop_enabled(c, address, n) ==
    LET r == _fast_query(c, address, <<170, address.val>>, 5, n)
    IN  IF r.exc # "none" THEN r
        ELSE IF r.ret.type = "NoneType" THEN Return(r, [type |-> "bool", val |-> FALSE])
        ELSE IF r.ret.val = <<>> THEN Raise(r, "IndexError", "")
        ELSE Return(r, [type |-> "bool", val |-> r.ret.val[1] = 49])

\* byte = 0x80 | address, which raises TypeError for a str
get_registers_fast(c, address, n) ==
    LET byte == IF (address.val \div 128) % 2 = 1 THEN address.val ELSE address.val + 128
    IN  IF address.type # "int" THEN Raise(c, "TypeError", "operand")
        ELSE _fast_query(c, address, <<byte, byte>>, 16, n)

get_power_on_time(c, address, n) == _fast_query(c, address, <<166, address.val>>, 12, n)

\* a validation that lets every str through
_validate_any_state(c, binary_state) ==
    IF binary_state.type # "str" THEN Raise(c, "TypeError", "")
    ELSE Return(c, upper(binary_state.val))

\* Genesys._validate_binary_state: the upper-cased state is left in ret
_validate_binary_state(c, binary_state) ==
    IF binary_state.type # "str" THEN Raise(c, "TypeError", "")
    ELSE IF upper(binary_state.val) \notin {<<"O", "F", "F">>, <<"O", "N">>}
         THEN Raise(c, "ValueError", "")
    ELSE Return(c, upper(binary_state.val))

\* a group write that returns as soon as the frame is written
_group_write_unsettled(c, sp, command) ==
    IF sp.baudrate \notin BAUD_RATES THEN Raise(c, "ValueError", "baud")
    ELSE Write(c, command)

\* the frame is written as it is, without a terminator, and nothing is read
_group_write_command(c, sp, command) ==
    IF sp.baudrate \notin BAUD_RATES THEN Raise(c, "ValueError", "baud")
    ELSE [Write(c, command) EXCEPT !.log = Append(@, "sleep 0.200")]

\* the six group methods; '{:0>6.3f}'.format(x) is FORMAT padded with '0' to
\* six characters
group_command(c, sp, op, arg) ==
    CASE op = "group_reset" ->
            _group_write_command(c, sp, <<"G", "R", "S", "T">>)
      [] op = "group_program_voltage" ->
            IF ~IsReal(arg) THEN Raise(c, "TypeError", "")
            ELSE _group_write_command(c, sp, <<"G", "P", "V", " ">>
                                             \o ZeroPad(FORMAT(arg.val, c.rnd.up), 6))
      [] op = "group_program_current" ->
            IF ~IsReal(arg) THEN Raise(c, "TypeError", "")
            ELSE _group_write_command(c, sp, <<"G", "P", "C", " ">>
                                             \o ZeroPad(FORMAT(arg.val, c.rnd.up), 6))
      [] op = "group_set_power_state" ->
            IF _validate_binary_state(c, arg).exc # "none"
            THEN _validate_binary_state(c, arg)
            ELSE _group_write_command(c, sp, <<"G", "O", "U", "T", " ">>
                                             \o _validate_binary_state(c, arg).ret)
      [] op = "group_save_settings" ->
            _group_write_command(c, sp, <<"G", "S", "A", "V">>)
      [] op = "group_recall_settings" ->
            _group_write_command(c, sp, <<"G", "R", "C", "L">>)

---------------------------------------------------------------------------
(* Serialized use: every call runs to completion before the next starts *)

\* the static methods that send a binary fast query
FastMethods == {"is_responsive", "is_multi_drop_enabled", "get_registers_fast",
                "get_power_on_time"}

\* the static methods that send a group command
GroupMethods == {"group_reset", "group_program_voltage", "group_program_current",
                 "group_set_power_state", "group_save_settings", "group_recall_settings"}

\* the state after a call of session s that ended in context c; prev follows
\* the addressed commands only, and call remembers the baud rate and the
\* timeout the port had when the call started, and whether the call before
\* it was a fast query
Commit(s, op, cmd, val, c) ==
    /\ listening_addresses' = c.la
    /\ dev' = c.d
    /\ bus' = [bus EXCEPT ![s.port] = c.b]
    /\ prev' = IF c.wire # <<>> /\ op \notin FastMethods \cup GroupMethods
               THEN [prev EXCEPT ![s.port] = s.address] ELSE prev
    /\ serial_port' = [serial_port EXCEPT ![s.port].timeout = c.timeout]
    /\ call' = [op |-> op, s |-> s, cmd |-> cmd, val |-> val,
                faulty |-> c.flt.at \in 1..Len(c.rx), wire |-> c.wire, rx |-> c.rx,
                exc |-> c.exc, msg |-> c.msg, ret |-> c.ret, log |-> c.log,
                baudrate |-> serial_port[s.port].baudrate,
                timeout |-> serial_port[s.port].timeout,
                afterFast |-> call.op \in FastMethods]
    /\ UNCHANGED <<pc, need, alone, cmdWrite>>

\* a method of an existing object: its fields are written even when it raises
CommitMethod(s, op, cmd, val, c) ==
    /\ Commit(s, op, cmd, val, c)
    /\ last_command' = [last_command EXCEPT ![s] = c.lc]
    /\ last_response' = [last_response EXCEPT ![s] = c.lr]
    /\ UNCHANGED caps

\* the arguments Genesys(...) is tried with on a port
AddressArgs(port) ==
    {PyInt(s.address) : s \in {x \in Sessions : x.port = port}} \cup {PyInt(42), PyStr(0)}

SessionOf(port, address) ==
    IF address.type = "int" /\ [port |-> port, address |-> address.val] \in Sessions
    THEN [port |-> port, address |-> address.val]
    ELSE CHOOSE s \in Sessions : s.port = port

\* a constructor that stores the envelope for every session of the port
ConstructShared(port, address, flt) ==
    LET s == SessionOf(port, address)
        c == __init__(Ctx(s, flt, Exact), address, serial_port[port], s)
    IN  /\ Commit(s, "__init__", <<>>, address, c)
        /\ IF c.exc = "none"
           THEN /\ last_command' = [last_command EXCEPT ![s] = c.lc]
                /\ last_response' = [last_response EXCEPT ![s] = c.lr]
                /\ caps' = [t \in Sessions |-> IF t.port = port THEN c.caps ELSE caps[t]]
           ELSE UNCHANGED <<last_command, last_response, caps>>
        /\ UNCHANGED proc

\* g = Genesys(address, serial_port): g is bound only when __init__ returns
Construct(port, address, flt) ==
    LET s == SessionOf(port, address)
        c == __init__(Ctx(s, flt, Exact), address, serial_port[port], s)
    IN  /\ Commit(s, "__init__", <<>>, address, c)
        /\ IF c.exc = "none"
           THEN /\ last_command' = [last_command EXCEPT ![s] = c.lc]
                /\ last_response' = [last_response EXCEPT ![s] = c.lr]
                /\ caps' = [caps EXCEPT ![s] = c.caps]
           ELSE UNCHANGED <<last_command, last_response, caps>>
        /\ UNCHANGED proc

\* the commands the channel is tried with: an imperative, a query, and no text
TestCommands == {<<"C", "L", "S">>, <<"S", "N", "?">>, <<>>}

CommandImperative(s, cmd, flt) ==
    /\ caps[s].made
    /\ CommitMethod(s, "command_imperative", cmd, PyInt(0),
                    command_imperative(Ctx(s, flt, Exact), s, cmd))
    /\ UNCHANGED proc

CommandInterrogative(s, cmd, flt) ==
    /\ caps[s].made
    /\ CommitMethod(s, "command_interrogative", cmd, PyInt(0),
                    command_interrogative(Ctx(s, flt, Exact), s, cmd))
    /\ UNCHANGED proc

RepeatLastCommand(s, flt) ==
    /\ caps[s].made
    /\ CommitMethod(s, "repeat_last_command", <<"\\">>, PyInt(0),
                    repeat_last_command(Ctx(s, flt, Exact), s))
    /\ UNCHANGED proc

\* a supply as it is found: nothing programmed, protection wide open,
\* multi-drop enabled
Supply(v, a) ==
    [idn |-> Identity(v, a), UVL |-> 0, PV |-> 0, PC |-> 0, OVP |-> OVPs[ModelKey(v)].MAX,
     MD |-> TRUE]

NoCall == [op |-> "none", s |-> CHOOSE s \in Sessions : TRUE, cmd |-> <<>>, val |-> PyInt(0),
           faulty |-> FALSE, wire |-> <<>>, rx |-> <<>>,
           exc |-> "none", msg |-> "", ret |-> NONE, log |-> <<>>,
           baudrate |-> 19200, timeout |-> 0, afterFast |-> FALSE]

\* no thread is running
NoThreads ==
    /\ pc = [s \in Sessions |-> "idle"]
    /\ need = [s \in Sessions |-> FALSE]
    /\ alone = TRUE
    /\ cmdWrite = [s |-> CHOOSE s \in Sessions : TRUE, b |-> NoAddress]

\* the threads and the procedure are not running
Idle ==
    /\ NoThreads
    /\ proc = [step |-> 0, UVL |-> 0, V |-> 0, OVP |-> 0]

\* the class attribute is empty, no object exists, and the supplies on the
\* ports are the GEN40-38 of test_Genesys.py; the one that has COM5 to itself
\* has multi-drop disabled
Init ==
    /\ listening_addresses = <<>>
    /\ last_command = [s \in Sessions |-> <<>>]
    /\ last_response = [s \in Sessions |-> <<>>]
    /\ caps = [s \in Sessions |-> NoCaps]
    /\ serial_port = [p \in Ports |-> [baudrate |-> 19200, timeout |-> 0, buf |-> <<>>]]
    /\ dev = [s \in Sessions |->
                 [Supply(<<"4", "0">>, <<"3", "8">>) EXCEPT !.MD = (s.port = "COM4")]]
    /\ bus = [p \in Ports |-> NoAddress]
    /\ prev = [p \in Ports |-> NoAddress]
    /\ call = NoCall
    /\ Idle

\* the calls of the sessions on the ports P, one at a time
NextOn(P) ==
    \/ \E p \in P : \E a \in AddressArgs(p) : \E f \in Faults(3) : Construct(p, a, f)
    \/ \E s \in Sessions, cmd \in TestCommands, f \in Faults(2) :
          s.port \in P /\ CommandImperative(s, cmd, f)
    \/ \E s \in Sessions, cmd \in TestCommands, f \in Faults(2) :
          s.port \in P /\ CommandInterrogative(s, cmd, f)
    \/ \E s \in Sessions, f \in Faults(2) : s.port \in P /\ RepeatLastCommand(s, f)

\* two supplies on one shared port
Next == NextOn({"COM4"})

Spec == Init /\ [][Next]_vars

---------------------------------------------------------------------------
(* Concurrent use: each thread runs _write_command_read_response one       *)
(* statement at a time; the module takes no lock, so the statements of two *)
(* threads interleave freely.                                              *)

\* the frame a thread's command puts on the wire
ThreadCommand == <<"C", "L", "S", CR>>

Threads(P) == {s \in Sessions : s.port \in P /\ caps[s].made}

AllIdle == \A t \in Sessions : pc[t] = "idle"

\* serial_port.write(frame) on the shared port: the listening supply answers
\* into the port's input buffer
PortWrite(s, frame) ==
    /\ bus' = [bus EXCEPT ![s.port] = Listener(s.port, @, frame).address]
    /\ prev' = [prev EXCEPT ![s.port] = s.address]
    /\ last_command' = [last_command EXCEPT ![s] = frame]
    /\ IF Listener(s.port, bus[s.port], frame) \in Sessions
       THEN /\ dev' = [dev EXCEPT ![Listener(s.port, bus[s.port], frame)] = DeviceStep(@, frame)]
            /\ serial_port' = [serial_port EXCEPT ![s.port].buf =
                   Append(@, DeviceReply(dev[Listener(s.port, bus[s.port], frame)], frame))]
       ELSE UNCHANGED <<dev, serial_port>>

\* serial_port.readline() on the shared port: the oldest line, or nothing at timeout
PortLine(port) ==
    IF serial_port[port].buf = <<>> THEN <<>> ELSE Head(serial_port[port].buf)

\* self._read_response()
PortRead(s) ==
    /\ serial_port' = [serial_port EXCEPT ![s.port].buf = IF @ = <<>> THEN @ ELSE Tail(@)]
    /\ last_response' = [last_response EXCEPT ![s] = Remove(PortLine(s.port), CR)]

\* line 760: the thread enters the method and evaluates the registry check
Check(s) ==
    /\ pc[s] = "idle"
    /\ need' = [need EXCEPT ![s] = NeedsAddressing(listening_addresses, s)]
    /\ pc' = [pc EXCEPT ![s] = IF NeedsAddressing(listening_addresses, s)
                               THEN "update" ELSE "write"]
    /\ alone' = (alone /\ \A t \in Sessions : t.port = s.port => pc[t] = "idle")
    /\ UNCHANGED <<listening_addresses, last_command, last_response, caps, serial_port,
                   dev, bus, prev, call, cmdWrite, proc>>

\* line 761
UpdateRegistry(s) ==
    /\ pc[s] = "update"
    /\ listening_addresses' = Update(listening_addresses, s.port, s.address)
    /\ pc' = [pc EXCEPT ![s] = "adr"]
    /\ UNCHANGED <<last_command, last_response, caps, serial_port, dev, bus, prev, call,
                   need, alone, cmdWrite, proc>>

\* lines 765-769
WriteADR(s) ==
    /\ pc[s] = "adr"
    /\ PortWrite(s, AdrFrame(s.address))
    /\ pc' = [pc EXCEPT ![s] = "adrRead"]
    /\ UNCHANGED <<listening_addresses, last_response, caps, call, need, alone, cmdWrite,
                   proc>>

\* line 770: the assert ends the call when the line read is not "OK"
ReadADR(s) ==
    /\ pc[s] = "adrRead"
    /\ PortRead(s)
    /\ pc' = [pc EXCEPT ![s] = IF Remove(PortLine(s.port), CR) = OK THEN "write" ELSE "idle"]
    /\ UNCHANGED <<listening_addresses, last_command, caps, dev, bus, prev, call, need,
                   alone, cmdWrite, proc>>

\* lines 771-774
WriteCommand(s) ==
    /\ pc[s] = "write"
    /\ PortWrite(s, ThreadCommand)
    /\ cmdWrite' = [s |-> s, b |-> bus[s.port]]
    /\ pc' = [pc EXCEPT ![s] = "read"]
    /\ UNCHANGED <<listening_addresses, last_response, caps, call, need, alone, proc>>

\* line 775
ReadReply(s) ==
    /\ pc[s] = "read"
    /\ PortRead(s)
    /\ pc' = [pc EXCEPT ![s] = "idle"]
    /\ UNCHANGED <<listening_addresses, last_command, caps, dev, bus, prev, call, need,
                   alone, cmdWrite, proc>>

\* the objects are built first, one after the other; then their threads run
NextThreads ==
    \/ \E a \in AddressArgs("COM4") : AllIdle /\ Construct("COM4", a, NoFault)
    \/ \E s \in Threads({"COM4"}) : Check(s)
    \/ \E s \in Threads({"COM4"}) : UpdateRegistry(s)
    \/ \E s \in Threads({"COM4"}) : WriteADR(s)
    \/ \E s \in Threads({"COM4"}) : ReadADR(s)
    \/ \E s \in Threads({"COM4"}) : WriteCommand(s)
    \/ \E s \in Threads({"COM4"}) : ReadReply(s)

SpecThreads == Init /\ [][NextThreads]_vars

---------------------------------------------------------------------------
(* The programming methods, on a grid of values around every threshold the *)
(* checks compare against.                                                 *)

\* one supply of each voltage class of the tables
Identities ==
    {[v |-> <<"6">>,                a |-> <<"1", "0", "0">>],
     [v |-> <<"8">>,                a |-> <<"9", "0">>],
     [v |-> <<"1", "2", ".", "5">>, a |-> <<"6", "0">>],
     [v |-> <<"2", "0">>,           a |-> <<"3", "8">>],
     [v |-> <<"3", "0">>,           a |-> <<"2", "5">>],
     [v |-> <<"4", "0">>,           a |-> <<"3", "8">>],
     [v |-> <<"6", "0">>,           a |-> <<"1", "2", ".", "5">>],
     [v |-> <<"8", "0">>,           a |-> <<"9", ".", "5">>],
     [v |-> <<"1", "0", "0">>,      a |-> <<"7", ".", "5">>],
     [v |-> <<"1", "5", "0">>,      a |-> <<"5">>],
     [v |-> <<"3", "0", "0">>,      a |-> <<"2", ".", "5">>],
     [v |-> <<"6", "0", "0">>,      a |-> <<"1", ".", "3">>]}

\* the session that programs voltages, and the one that shares its port
Primary == [port |-> "COM4", address |-> 0]

Secondary == [port |-> "COM4", address |-> 30]

\* the largest distance from a wire value that still rounds back to it
Eps == Sub \div 2 - 1

\* a voltage in the middle of the envelope, in whole volts
Half(cp) == (cp.VOL.MAX \div (2 * One)) * One

\* voltages: Half and its two neighbours that the wire carries as Half, and
\* one volt outside either end of the envelope
VoltageVals(cp) ==
    {0 - One, Half(cp) - Eps, Half(cp), Half(cp) + Eps, cp.VOL.MAX + One}

\* under-voltage limits: the bottom of the envelope, 95 % of Half, the
\* largest limit below 95 % of Half + Eps, and one volt outside either end
UnderVals(cp) ==
    {0 - One, cp.UVL.min, (Half(cp) * 19) \div 20, (Half(cp) * 19) \div 20 + (Eps * 19) \div 20,
     cp.UVL.MAX + One}

\* over-voltage protections: the top of the envelope, 105 % of Half, the
\* smallest protection above 105 % of Half - Eps, and a step outside either end
OverVals(cp) ==
    {cp.OVP.min - Sub, (Half(cp) * 21) \div 20 - (Eps * 21) \div 20,
     (Half(cp) * 21) \div 20, cp.OVP.MAX, cp.OVP.MAX + One}

\* currents: the bottom of the envelope, and one ampere outside either end
AmpereVals(cp) == {0 - One, cp.CUR.min, cp.CUR.MAX + One}

\* the arguments a method is called with: the real numbers of S, and a string
Args(S) == {PyFloat(x) : x \in S} \cup {PyStr(0)}

ProgramVoltage(s, volts, flt, rnd) ==
    /\ caps[s].made
    /\ CommitMethod(s, "program_voltage", <<>>, volts,
                    program_voltage(Ctx(s, flt, rnd), s, volts))
    /\ UNCHANGED proc

ProgramAmperage(s, amperes, flt, rnd) ==
    /\ caps[s].made
    /\ CommitMethod(s, "program_amperage", <<>>, amperes,
                    program_amperage(Ctx(s, flt, rnd), s, amperes))
    /\ UNCHANGED proc

ProgramOverVoltageProtection(s, volts, flt, rnd) ==
    /\ caps[s].made
    /\ CommitMethod(s, "program_over_voltage_protection", <<>>, volts,
                    program_over_voltage_protection(Ctx(s, flt, rnd), s, volts))
    /\ UNCHANGED proc

ProgramUnderVoltageLimit(s, volts, flt, rnd) ==
    /\ caps[s].made
    /\ CommitMethod(s, "program_under_voltage_limit", <<>>, volts,
                    program_under_voltage_limit(Ctx(s, flt, rnd), s, volts))
    /\ UNCHANGED proc

\* no fault, or no answer to the first frame of the call
Timeouts == {NoFault, [at |-> 1, reply |-> <<>>]}

\* the roundings that differ from Exact in the fields F only
RoundingsOf(F) == {r \in Roundings : \A k \in DOMAIN r \ F : r[k] = Exact[k]}

\* Primary is programmed; building Secondary, on the same port, takes the
\* bus away from it
NextRange ==
    \/ \E s \in {Primary, Secondary} : Construct(s.port, PyInt(s.address), NoFault)
    \/ \E x \in Args(VoltageVals(caps[Primary])), f \in Timeouts,
          r \in RoundingsOf({"lo", "hi"}) : ProgramVoltage(Primary, x, f, r)
    \/ \E x \in Args(OverVals(caps[Primary])), f \in Timeouts,
          r \in RoundingsOf({"lo"}) : ProgramOverVoltageProtection(Primary, x, f, r)
    \/ \E x \in Args(UnderVals(caps[Primary])), f \in Timeouts,
          r \in RoundingsOf({"hi"}) : ProgramUnderVoltageLimit(Primary, x, f, r)
    \/ \E x \in Args(AmpereVals(caps[Primary])), f \in Timeouts :
          ProgramAmperage(Primary, x, f, Exact)

SpecRange == Init /\ [][NextRange]_vars

---------------------------------------------------------------------------
(* The safe-configuration procedure of genesys_example_usage.py: UVL and   *)
(* OVP opened to their widest, then the voltage, then UVL and OVP closed   *)
(* on the targets proc.UVL, proc.V, proc.OVP.                              *)

\* the target triples of a class: every combination of the grid values, of
\* limits 10 % away from Half, and of a voltage half way between two wire
\* values
Targets(cp) ==
    [UVL : UnderVals(cp) \cup {(Half(cp) * 18) \div 20},
     V   : VoltageVals(cp) \cup {Half(cp) + Sub \div 2},
     OVP : OverVals(cp) \cup {(Half(cp) * 22) \div 20}]

\* the states a supply is found in: nothing programmed and protection wide
\* open, or programmed at Half with both limits as close as they can be
Starts(cp) ==
    {[UVL |-> 0, PV |-> 0, OVP |-> cp.OVP.MAX],
     [UVL |-> (Half(cp) * 19) \div 20, PV |-> Half(cp), OVP |-> (Half(cp) * 21) \div 20]}

SupplyAt(id, st) ==
    [Supply(id.v, id.a) EXCEPT !.UVL = st.UVL, !.PV = st.PV, !.OVP = st.OVP]

InitProc ==
    /\ listening_addresses = <<>>
    /\ last_command = [s \in Sessions |-> <<>>]
    /\ last_response = [s \in Sessions |-> <<>>]
    /\ caps = [s \in Sessions |-> NoCaps]
    /\ serial_port = [p \in Ports |-> [baudrate |-> 19200, timeout |-> 0, buf |-> <<>>]]
    /\ \E id \in Identities :
          /\ \E st \in Starts(Capabilities(id.v, id.a)) :
                dev = [s \in Sessions |-> SupplyAt(id, st)]
          /\ \E tg \in Targets(Capabilities(id.v, id.a)) :
                proc = [step |-> 0, UVL |-> tg.UVL, V |-> tg.V, OVP |-> tg.OVP]
    /\ bus = [p \in Ports |-> NoAddress]
    /\ prev = [p \in Ports |-> NoAddress]
    /\ call = NoCall
    /\ NoThreads

\* gens[0] = Genesys(0, serial_port)
ProcConstruct ==
    /\ ~caps[Primary].made
    /\ Construct(Primary.port, PyInt(Primary.address), NoFault)

\* statement k of the procedure: it runs when the ones before it have
\* returned, an exception ends the script
ProcStep(k, op, val, c) ==
    /\ caps[Primary].made
    /\ proc.step = k - 1
    /\ call.exc = "none"
    /\ CommitMethod(Primary, op, <<>>, val, c)
    /\ proc' = [proc EXCEPT !.step = k]

\* program_under_voltage_limit(UVL['min'])
OpenUnder(rnd) ==
    ProcStep(1, "program_under_voltage_limit", PyFloat(caps[Primary].UVL.min),
             program_under_voltage_limit(Ctx(Primary, NoFault, rnd), Primary,
                                         PyFloat(caps[Primary].UVL.min)))

\* program_over_voltage_protection(OVP['MAX'])
OpenOver(rnd) ==
    ProcStep(2, "program_over_voltage_protection", PyFloat(caps[Primary].OVP.MAX),
             program_over_voltage_protection(Ctx(Primary, NoFault, rnd), Primary,
                                             PyFloat(caps[Primary].OVP.MAX)))

\* program_voltage(V)
SetVoltage(rnd) ==
    ProcStep(3, "program_voltage", PyFloat(proc.V),
             program_voltage(Ctx(Primary, NoFault, rnd), Primary, PyFloat(proc.V)))

\* program_under_voltage_limit(UVL)
CloseUnder(rnd) ==
    ProcStep(4, "program_under_voltage_limit", PyFloat(proc.UVL),
             program_under_voltage_limit(Ctx(Primary, NoFault, rnd), Primary,
                                         PyFloat(proc.UVL)))

\* program_over_voltage_protection(OVP)
CloseOver(rnd) ==
    ProcStep(5, "program_over_voltage_protection", PyFloat(proc.OVP),
             program_over_voltage_protection(Ctx(Primary, NoFault, rnd), Primary,
                                             PyFloat(proc.OVP)))

NextProc ==
    \/ ProcConstruct
    \/ \E r \in RoundingsOf({"hi"}) : OpenUnder(r)
    \/ \E r \in RoundingsOf({"lo"}) : OpenOver(r)
    \/ \E r \in Roundings : SetVoltage(r)
    \/ \E r \in RoundingsOf({"hi"}) : CloseUnder(r)
    \/ \E r \in RoundingsOf({"lo"}) : CloseOver(r)

SpecProc == InitProc /\ [][NextProc]_vars

---------------------------------------------------------------------------
(* The static methods next to the sessions of a port: the caller sets the  *)
(* port up, builds sessions, sends a query through one, and probes and     *)
(* broadcasts in between.                                                  *)

\* sp.baudrate = ...; sp.timeout = ..., done by the caller between two calls
Reconfigure(port, baudrate, timeout) ==
    /\ serial_port' = [serial_port EXCEPT ![port].baudrate = baudrate,
                                          ![port].timeout = timeout]
    /\ call' = [NoCall EXCEPT !.op = "configure", !.s = SessionOf(port, PyStr(0)),
                              !.baudrate = baudrate, !.timeout = timeout]
    /\ UNCHANGED <<listening_addresses, last_command, last_response, caps, dev, bus, prev,
                   pc, need, alone, cmdWrite, proc>>

\* Genesys.<op>(serial_port, address), n bytes arriving before the read
FastQuery(port, op, address, n) ==
    LET s == SessionOf(port, address)
        c == Ctx(s, NoFault, Exact)
    IN  /\ CommitMethod(s, op, <<>>, address,
               CASE op = "is_responsive"         -> is_responsive(c, address, n)
                 [] op = "is_multi_drop_enabled" -> is_multi_drop_enabled(c, address, n)
                 [] op = "get_registers_fast"    -> get_registers_fast(c, address, n)
                 [] op = "get_power_on_time"     -> get_power_on_time(c, address, n))
        /\ UNCHANGED proc

\* Genesys.<op>(serial_port) or Genesys.<op>(serial_port, arg)
GroupCommand(port, op, arg) ==
    LET s == SessionOf(port, PyStr(0))
    IN  /\ CommitMethod(s, op, <<>>, arg,
                        group_command(Ctx(s, NoFault, Exact), serial_port[port], op, arg))
        /\ UNCHANGED proc

NextStatic ==
    \/ \E b \in {19200, 115200}, t \in {0, 2} : Reconfigure("COM4", b, t)
    \/ \E a \in AddressArgs("COM4") : Construct("COM4", a, NoFault)
    \/ \E s \in Sessions :
          s.port = "COM4" /\ CommandInterrogative(s, <<"S", "N", "?">>, NoFault)
    \/ \E p \in Ports, op \in FastMethods, n \in {0, 1, 16} :
          \E a \in AddressArgs(p) : FastQuery(p, op, a, n)
    \/ \E op \in GroupMethods : GroupCommand("COM4", op, PyFloat(5 * One))
    \/ \E op \in GroupMethods, state \in {<<"o", "n">>, <<"U", "P">>} :
          GroupCommand("COM4", op, [type |-> "str", val |-> state])

SpecStatic == Init /\ [][NextStatic]_vars

---------------------------------------------------------------------------
(* The setters and getters of a session that send one command, next to     *)
(* sessions on two ports, fast queries and group commands.                 *)

\* One call of a method of the session s, by name:
\*   set_remote_mode(arg), set_power_state(arg), set_foldback_state(arg),
\*   set_autostart_state(arg), set_filter_frequency(arg),
\*   set_additional_foldback_delay(arg), set_register_fault_enable(arg),
\*   set_register_status_condition(arg), get_filter_frequency(),
\*   multi_drop_installed()
Invoke(c, s, op, arg) ==
    LET hex == <<"0", "1", "2", "3", "4", "5", "6", "7",
                 "8", "9", "A", "B", "C", "D", "E", "F">>
        \* format(n, 'X') for 0 <= n <= 255
        X(n) == IF n < 16 THEN <<hex[n + 1]>>
                ELSE <<hex[(n \div 16) + 1], hex[(n % 16) + 1]>>
        state == _validate_binary_state(c, arg)
        binary(token) == IF state.exc # "none" THEN state
                         ELSE command_imperative(state, s, token \o state.ret)
        byte(token, asHex) ==
            IF arg.type # "int" THEN Raise(c, "TypeError", "")
            ELSE IF ~(0 <= arg.val /\ arg.val <= 255) THEN Raise(c, "ValueError", "")
            ELSE command_imperative(c, s, token \o (IF asHex THEN X(arg.val)
                                                    ELSE IntToStr(arg.val)))
        \* command_interrogative('MDAV?') == 1: a str never equals an int
        installed(r) == IF r.exc # "none" THEN r
                        ELSE Return(r, [type |-> "bool", val |-> FALSE])
    IN  CASE op = "set_remote_mode" ->
                 IF arg.type # "str" THEN Raise(c, "TypeError", "")
                 ELSE IF upper(arg.val) \notin {<<"L", "O", "C">>, <<"R", "E", "M">>,
                                                <<"L", "L", "O">>}
                      THEN Raise(c, "ValueError", "")
                 ELSE command_imperative(c, s, <<"R", "M", "T", " ">> \o upper(arg.val))
          [] op = "set_power_state" -> binary(<<"O", "U", "T", " ">>)
          [] op = "set_foldback_state" -> binary(<<"F", "L", "D", " ">>)
          [] op = "set_autostart_state" -> binary(<<"A", "S", "T", " ">>)
          [] op = "set_filter_frequency" ->
                 IF arg.type # "int" THEN Raise(c, "TypeError", "")
                 ELSE IF arg.val \notin {18, 23, 46} THEN Raise(c, "ValueError", "")
                 ELSE command_imperative(c, s, <<"F", "I", "L", "T", "E", "R", " ">>
                                               \o IntToStr(arg.val))
          [] op = "set_additional_foldback_delay" -> byte(<<"F", "D", "B", " ">>, FALSE)
          [] op = "set_register_fault_enable" -> byte(<<"F", "E", "N", "A", " ">>, TRUE)
          [] op = "set_register_status_condition" -> byte(<<"S", "E", "N", "A", " ">>, TRUE)
          [] op = "get_filter_frequency" ->
                 command_imperative(c, s, <<"F", "I", "L", "T", "E", "R", "?">>)
          [] op = "multi_drop_installed" ->
                 installed(command_interrogative(c, s, <<"M", "D", "A", "V", "?">>))

\* g.op(arg), or g.op() for the two methods without argument
Method(s, op, arg, flt) ==
    /\ caps[s].made
    /\ CommitMethod(s, op, <<>>, arg, Invoke(Ctx(s, flt, Exact), s, op, arg))
    /\ UNCHANGED proc

\* Primary is configured through its setters and asked through its getters;
\* sessions are built on both ports, a getter may find no answer to its
\* first frame, and the port is probed and broadcast to in between.  Every
\* setter is tried with an int below, in and above its range, with a str it
\* accepts and one it does not, and with a float.
NextMethods ==
    \/ \E s \in Sessions : Construct(s.port, PyInt(s.address), NoFault)
    \/ \E op \in {"set_remote_mode", "set_power_state", "set_foldback_state",
                  "set_autostart_state", "set_filter_frequency",
                  "set_additional_foldback_delay", "set_register_fault_enable",
                  "set_register_status_condition"} :
          \/ \E n \in {0 - 1, 46, 256} : Method(Primary, op, PyInt(n), NoFault)
          \/ \E text \in {<<"l", "l", "o">>, <<"o", "n">>, <<"U", "P">>} :
                Method(Primary, op, [type |-> "str", val |-> text], NoFault)
          \/ Method(Primary, op, PyFloat(One), NoFault)
    \/ \E op \in {"get_filter_frequency", "multi_drop_installed"}, f \in Timeouts :
          Method(Primary, op, PyInt(0), f)
    \/ RepeatLastCommand(Primary, NoFault)
    \/ ProgramVoltage(Primary, PyStr(0), NoFault, Exact)
    \/ ProgramAmperage(Primary, PyStr(0), NoFault, Exact)
    \/ ProgramOverVoltageProtection(Primary, PyStr(0), NoFault, Exact)
    \/ ProgramUnderVoltageLimit(Primary, PyStr(0), NoFault, Exact)
    \/ FastQuery("COM4", "is_responsive", PyInt(30), 16)
    \/ GroupCommand("COM4", "group_reset", PyInt(0))

SpecMethods == Init /\ [][NextMethods]_vars

---------------------------------------------------------------------------
(* The programming methods with arguments finer than the wire: values that *)
(* pass a presently-valid check by less than the 0.0005 that formatting    *)
(* can take away or add.                                                   *)

\* With h the middle of the envelope: the voltage is programmed to h, h + 1
\* and h + 0.0011; the limit to 0, 95 % of h + 0.001 and 95 % of h + 0.0006;
\* the protection to its maximum, 110 % of h and 105 % of h + 0.0011.
NextRound ==
    \/ ~caps[Primary].made /\ Construct(Primary.port, PyInt(Primary.address), NoFault)
    \/ \E x \in {Half(caps[Primary]), Half(caps[Primary]) + One,
                 Half(caps[Primary]) + milli(1) + Sub \div 10}, f \in Timeouts :
          ProgramVoltage(Primary, PyFloat(x), f, Exact)
    \/ \E x \in {0, (Half(caps[Primary]) * 19) \div 20 + milli(1),
                 (Half(caps[Primary]) * 19) \div 20 + Sub \div 2 + Sub \div 10},
          f \in Timeouts :
          ProgramUnderVoltageLimit(Primary, PyFloat(x), f, Exact)
    \/ \E x \in {caps[Primary].OVP.MAX, (Half(caps[Primary]) * 22) \div 20,
                 (Half(caps[Primary]) * 21) \div 20 + milli(1) + Sub \div 10},
          f \in Timeouts :
          ProgramOverVoltageProtection(Primary, PyFloat(x), f, Exact)

SpecRound == Init /\ [][NextRound]_vars

---------------------------------------------------------------------------
(* Properties of the addressing cache and of the command channel (Spec)   *)

\* C1: under serialized use, a call that writes to the port writes exactly
\* one addressing frame, as its first frame and naming its own address, when
\* the previous command on the port came from a session with another
\* address, and writes no addressing frame when it came from the same address.
C1_OneOrNoAddressingFrame ==
    [][call'.wire # <<>> =>
          LET adr == {i \in 1..Len(call'.wire) : IsADR(call'.wire[i])}
          IN  IF prev[call'.s.port] = call'.s.address
              THEN adr = {}
              ELSE adr = {1} /\ AdrOf(call'.wire[1]) = call'.s.address]_vars

\* a command of Primary that had to re-address after Secondary was built
C1_Witness ==
    /\ call.op = "command_imperative" /\ call.s = Primary
    /\ caps[Secondary].made
    /\ Len(call.wire) = 2 /\ IsADR(call.wire[1])
    /\ call.wire[2] = call.cmd \o <<CR>>

\* C2: when the reply to the ADR frame is not "OK" the call raises and the
\* registry entry of the port is what it was before the call.
C2_RegistryKeptOnFailedAddressing ==
    [][(call'.wire # <<>> /\ IsADR(call'.wire[1]) /\ Remove(call'.rx[1], CR) # OK) =>
          /\ call'.exc = "AssertionError"
          /\ listening_addresses' = listening_addresses]_vars

\* C4: once the command frame is written, command_imperative returns
\* exactly when the reply without its terminator is "OK" and raises
\* AssertionError otherwise; command_interrogative raises AssertionError
\* exactly when that reply is "OK" and otherwise returns it.
C4_ReplyContract ==
    (call.wire # <<>> /\ call.wire[Len(call.wire)] = call.cmd \o <<CR>>) =>
        LET reply == Remove(call.rx[Len(call.rx)], CR)
        IN  /\ Len(call.rx) = Len(call.wire)
            /\ call.op = "command_imperative" =>
                  IF reply = OK THEN call.exc = "none" /\ call.ret = NONE
                  ELSE call.exc = "AssertionError" /\ call.msg = "reply"
            /\ call.op = "command_interrogative" =>
                  IF reply = OK THEN call.exc = "AssertionError" /\ call.msg = "reply"
                  ELSE call.exc = "none" /\ call.ret = reply

\* a query answered "OK"
C4_Witness ==
    /\ call.op = "command_interrogative"
    /\ call.wire # <<>> /\ call.wire[Len(call.wire)] = call.cmd \o <<CR>>
    /\ Remove(call.rx[Len(call.rx)], CR) = OK
    /\ call.exc = "AssertionError"

\* C5: command_imperative with a command that ends in "?" and
\* command_interrogative with a command that does not raise AssertionError
\* with nothing written, nothing read, and the registry and the bus untouched.
C5_DisciplineBeforeIO ==
    [][(/\ call'.cmd # <<>>
        /\ \/ call'.op = "command_imperative" /\ call'.cmd[Len(call'.cmd)] = "?"
           \/ call'.op = "command_interrogative" /\ call'.cmd[Len(call'.cmd)] # "?") =>
          /\ call'.exc = "AssertionError" /\ call'.msg = "discipline"
          /\ call'.wire = <<>> /\ call'.rx = <<>>
          /\ listening_addresses' = listening_addresses
          /\ bus' = bus]_vars

\* a query sent as an imperative while the bus listens to the other session
C5_Witness ==
    /\ call.op = "command_imperative" /\ call.cmd = <<"S", "N", "?">>
    /\ call.exc = "AssertionError" /\ call.wire = <<>>
    /\ call.s.port \in DOMAIN listening_addresses
    /\ listening_addresses[call.s.port] # call.s.address

---------------------------------------------------------------------------
(* Properties of concurrent use (SpecThreads)                              *)

\* C3 as stated: whatever the threads do, a command frame is written only
\* while the bus is addressed to the writer's own supply.
C3_NoCommandToTheOtherSupply ==
    cmdWrite.b # NoAddress => cmdWrite.b = cmdWrite.s.address

\* C3: as long as no two calls on the port have overlapped, a command frame
\* is written only while the bus is addressed to the writer's own supply.
C3_SerializedCallsReachTheirSupply ==
    (alone /\ cmdWrite.b # NoAddress) => cmdWrite.b = cmdWrite.s.address

\* both threads have sent their command, one call after the other
C3_Witness ==
    /\ alone /\ cmdWrite.b # NoAddress
    /\ \A s \in {Primary, Secondary} : last_command[s] = ThreadCommand

---------------------------------------------------------------------------
(* Properties of the range checks (SpecRange)                              *)

\* C6: each programming method, called with a real number outside the
\* envelope of its own quantity, raises the always-valid ValueError with
\* nothing written, nothing read, and the registry and the bus untouched.
C6_AlwaysRangeBeforeIO ==
    [][LET cp == caps[call'.s]
           x  == call'.val.val
       IN  (/\ IsReal(call'.val)
            /\ \/ call'.op = "program_voltage" /\ (x < cp.VOL.min \/ x > cp.VOL.MAX)
               \/ call'.op = "program_amperage" /\ (x < cp.CUR.min \/ x > cp.CUR.MAX)
               \/ call'.op = "program_over_voltage_protection"
                     /\ (x < cp.OVP.min \/ x > cp.OVP.MAX)
               \/ call'.op = "program_under_voltage_limit"
                     /\ (x < cp.UVL.min \/ x > cp.UVL.MAX)) =>
              /\ call'.exc = "ValueError" /\ call'.msg = "always"
              /\ call'.wire = <<>> /\ call'.rx = <<>>
              /\ listening_addresses' = listening_addresses
              /\ bus' = bus]_vars

\* an over-voltage protection below the envelope, asked while the bus
\* listens to the other session
C6_Witness ==
    /\ call.op = "program_over_voltage_protection"
    /\ IsReal(call.val) /\ call.val.val < caps[call.s].OVP.min
    /\ call.exc = "ValueError" /\ call.msg = "always"
    /\ listening_addresses[call.s.port] # call.s.address

---------------------------------------------------------------------------
(* Properties of the safe-configuration procedure (SpecProc)               *)

\* C10 as stated: for every target triple inside the envelopes with
\* UVL <= 0.95 * V and 1.05 * V <= OVP, no step of the procedure raises the
\* presently-valid ValueError.
C10_EveryValidTriple ==
    LET cp == caps[Primary]
    IN  (/\ cp.made
         /\ InRange(cp.UVL, proc.UVL) /\ InRange(cp.VOL, proc.V) /\ InRange(cp.OVP, proc.OVP)
         /\ proc.UVL * 20 <= proc.V * 19 /\ proc.V * 21 <= proc.OVP * 20) =>
            call.msg # "presently"

\* C10: for every target triple inside the envelopes whose three values are
\* multiples of 0.001 and for which UVL < 0.95 * V and 1.05 * V < OVP, no
\* step of the procedure raises.
C10_WireTriplesWithMargin ==
    LET cp == caps[Primary]
    IN  (/\ cp.made
         /\ InRange(cp.UVL, proc.UVL) /\ InRange(cp.VOL, proc.V) /\ InRange(cp.OVP, proc.OVP)
         /\ proc.UVL % Sub = 0 /\ proc.V % Sub = 0 /\ proc.OVP % Sub = 0
         /\ proc.UVL * 20 < proc.V * 19 /\ proc.V * 21 < proc.OVP * 20) =>
            call.exc = "none"

\* the procedure has run to its end for a target with both limits 10 % away
\* from the voltage, and the supply holds the target
C10_Witness ==
    /\ proc.step = 5 /\ call.exc = "none"
    /\ proc.UVL > 0 /\ proc.UVL % Sub = 0 /\ proc.V % Sub = 0 /\ proc.OVP % Sub = 0
    /\ proc.UVL * 20 < proc.V * 19 /\ proc.V * 21 < proc.OVP * 20
    /\ dev[Primary].UVL = proc.UVL /\ dev[Primary].PV = proc.V /\ dev[Primary].OVP = proc.OVP

---------------------------------------------------------------------------
(* Properties of the static methods (SpecStatic)                           *)

\* C11: is_responsive returns True exactly when its probe read at least one
\* byte, and False when it read none.
C11_ResponsiveIffBytesRead ==
    (call.op = "is_responsive" /\ call.exc = "none") =>
        (call.ret.val <=> Len(call.rx[1]) > 0)

\* C12: when the probe of is_multi_drop_enabled read at least one byte, the
\* call returns True if the first byte is 0x31 and False if it is any other
\* byte.
C12_MultiDropMarker ==
    (call.op = "is_multi_drop_enabled" /\ call.rx # <<>> /\ Len(call.rx[1]) > 0) =>
        /\ call.exc = "none"
        /\ call.ret = [type |-> "bool", val |-> call.rx[1][1] = 49]

\* the supply with multi-drop enabled answered, and the call returned True
C12_Witness ==
    /\ call.op = "is_multi_drop_enabled" /\ call.exc = "none"
    /\ call.wire = <<<<170, call.s.address>>>>
    /\ dev[call.s].MD /\ Len(call.rx[1]) > 0
    /\ call.ret.val

\* C13: when the probe of is_multi_drop_enabled read no byte, the call
\* returns False and raises nothing.
C13_NoBytesNoError ==
    (call.op = "is_multi_drop_enabled" /\ call.rx # <<>> /\ Len(call.rx[1]) = 0) =>
        call.exc = "none" /\ ~call.ret.val

\* C14: a fast query leaves the timeout of its port as it found it, whatever
\* was read.
C14_TimeoutRestored ==
    [][call'.op \in FastMethods =>
          serial_port'[call'.s.port].timeout = serial_port[call'.s.port].timeout]_vars

\* a probe on a port with timeout 2 read nothing under timeout 0, and the
\* port has timeout 2 again
C14_Witness ==
    /\ call.op \in FastMethods /\ call.timeout = 2
    /\ call.log = <<"timeout = 0", "write", "sleep 0.030", "read", "timeout = to">>
    /\ call.rx = <<<<>>>>
    /\ serial_port[call.s.port].timeout = 2

\* C15: a fast query writes at most its binary payload, never an addressing
\* frame, and leaves the registry as it was; an addressed command that comes
\* right after a fast query, from the session that issued the last addressed
\* command on the port, writes no addressing frame.
C15_FastQueriesBypassRegistry ==
    [][/\ call'.op \in FastMethods =>
             /\ listening_addresses' = listening_addresses
             /\ Len(call'.wire) <= 1
             /\ \A i \in 1..Len(call'.wire) :
                   Len(call'.wire[i]) = 2 /\ call'.wire[i][1] >= 128
       /\ (/\ call.op \in FastMethods
           /\ call'.op \notin FastMethods \cup GroupMethods
           /\ call'.wire # <<>>
           /\ prev[call'.s.port] = call'.s.address) =>
             \A i \in 1..Len(call'.wire) : ~IsADR(call'.wire[i])]_vars

\* a query of a session sent right after a fast query: one frame, the query
C15_Witness ==
    /\ call.afterFast /\ call.op = "command_interrogative" /\ call.exc = "none"
    /\ call.wire = <<call.cmd \o <<CR>>>>

\* C16: a group command that returns has written exactly one frame, which is
\* not an addressing frame, has read nothing, and has slept 200 ms between
\* the write and its return; one that raises has written nothing; either way
\* the registry is as it was.
C16_GroupCommandWritesOnce ==
    [][call'.op \in GroupMethods =>
          /\ listening_addresses' = listening_addresses
          /\ call'.rx = <<>>
          /\ IF call'.exc = "none"
             THEN /\ Len(call'.wire) = 1 /\ ~IsADR(call'.wire[1])
                  /\ call'.log = <<"write", "sleep 0.200">>
             ELSE call'.wire = <<>> /\ call'.log = <<>>]_vars

\* a group voltage sent while the registry holds an address
C16_Witness ==
    /\ call.op = "group_program_voltage" /\ call.exc = "none"
    /\ call.wire = <<<<"G", "P", "V", " ", "0", "5", ".", "0", "0", "0">>>>
    /\ call.s.port \in DOMAIN listening_addresses

\* C17: Genesys(address, serial_port) raises TypeError for an address that is
\* not an int, ValueError for an int outside 0..30, and ValueError for a port
\* whose baud rate is not one of 1200, 2400, 4800, 9600, 19200; in each case
\* nothing is written and the registry is as it was.
C17_ConstructionRejects ==
    [][LET a       == call'.val
           badType == a.type # "int"
           badAddr == a.type = "int" /\ a.val \notin 0..30
           badBaud == call'.baudrate \notin {1200, 2400, 4800, 9600, 19200}
       IN  call'.op = "__init__" =>
              /\ badType => call'.exc = "TypeError"
              /\ badAddr => call'.exc = "ValueError"
              /\ (badBaud /\ ~badType) => call'.exc = "ValueError"
              /\ (badType \/ badAddr \/ badBaud) =>
                    /\ call'.wire = <<>> /\ call'.rx = <<>>
                    /\ listening_addresses' = listening_addresses]_vars

\* a valid address on a port at 115200 baud, rejected with the registry in use
C17_Witness ==
    /\ call.op = "__init__" /\ call.val = PyInt(30) /\ call.baudrate = 115200
    /\ call.exc = "ValueError" /\ call.wire = <<>>
    /\ call.s.port \in DOMAIN listening_addresses

\* C18: session creation, the group commands and the fast queries write
\* nothing to a port whose baud rate is not one of 1200, 2400, 4800, 9600,
\* 19200.
C18_NoWriteAtInvalidBaudRate ==
    (call.op \in {"__init__"} \cup GroupMethods \cup FastMethods /\ call.wire # <<>>) =>
        call.baudrate \in {1200, 2400, 4800, 9600, 19200}

---------------------------------------------------------------------------
(* Properties of construction and of the registry (Spec)                   *)

\* C19: after a constructor or an addressed command of a session has
\* returned, the registry maps the session's port to the session's address.
C19_RegistryNamesTheSession ==
    (/\ call.op \in {"__init__", "command_imperative", "command_interrogative",
                     "repeat_last_command"}
     /\ call.exc = "none") =>
        /\ call.s.port \in DOMAIN listening_addresses
        /\ listening_addresses[call.s.port] = call.s.address

\* the second session on the port has been built and has sent a command
C19_Witness ==
    /\ call.op = "command_imperative" /\ call.exc = "none" /\ call.s = Secondary
    /\ caps[Primary].made
    /\ listening_addresses[call.s.port] = call.s.address

\* C20: a constructor that returns has written the addressing frame if the
\* registry did not name its address, then "RMT LLO", then "IDN?", and
\* nothing else, and no supply holds another UVL, PV, PC or OVP than before.
C20_ConstructionFrames ==
    [][(call'.op = "__init__" /\ call'.exc = "none") =>
          /\ call'.wire =
                (IF call'.s.port \in DOMAIN listening_addresses
                    /\ listening_addresses[call'.s.port] = call'.s.address
                 THEN <<>> ELSE <<ADR_ \o IntToStr(call'.s.address) \o <<CR>>>>)
                \o <<RMT_LLO \o <<CR>>, IDNq \o <<CR>>>>
          /\ dev' = dev]_vars

\* a session built a second time, while the registry names its address
C20_Witness ==
    /\ call.op = "__init__" /\ call.exc = "none"
    /\ call.wire = <<RMT_LLO \o <<CR>>, IDNq \o <<CR>>>>

\* C21: repeat_last_command, issued by a session right after one of its
\* imperatives or queries returned, returns without raising the reply the
\* supply gave to that command ("OK" after an imperative).
C21_RepeatReturnsPreviousReply ==
    [][(/\ call.op \in {"command_imperative", "command_interrogative"}
        /\ call.exc = "none"
        /\ call'.op = "repeat_last_command" /\ call'.s = call.s /\ ~call'.faulty) =>
          /\ call'.exc = "none"
          /\ call'.ret = last_response[call'.s]]_vars

\* C22: every addressing frame written is "ADR dd\r", dd the session's
\* address padded with "0" to two digits.
C22_AddressingFrameZeroPadded ==
    \A i \in 1..Len(call.wire) :
        IsADR(call.wire[i]) =>
            call.wire[i] = ADR_ \o ZeroPad(IntToStr(call.s.address), 2) \o <<CR>>

\* C23 (as stated): for every model class, 0 <= UVL.min <= UVL.MAX < OVP.min
\* <= OVP.MAX, in the tables and in the envelope of every session created.
C23_EnvelopeOrdered ==
    /\ \A k \in DOMAIN OVPs :
          /\ 0 <= UVLs[k].min /\ UVLs[k].min <= UVLs[k].MAX
          /\ UVLs[k].MAX < OVPs[k].min /\ OVPs[k].min <= OVPs[k].MAX
    /\ \A s \in Sessions : caps[s].made =>
          /\ 0 <= caps[s].UVL.min /\ caps[s].UVL.min <= caps[s].UVL.MAX
          /\ caps[s].UVL.MAX < caps[s].OVP.min /\ caps[s].OVP.min <= caps[s].OVP.MAX

\* C23 (amended): for every model class, 0 <= UVL.min <= UVL.MAX < OVP.MAX
\* and 0 < OVP.min <= OVP.MAX, and the two ranges overlap, OVP.min < UVL.MAX;
\* in the envelope of every session created, UVL.MAX is below the rated
\* voltage and OVP.MAX above it.
C23_EnvelopeOverlapping ==
    /\ DOMAIN UVLs = DOMAIN OVPs
    /\ \A k \in DOMAIN OVPs :
          /\ 0 <= UVLs[k].min /\ UVLs[k].min <= UVLs[k].MAX
          /\ 0 < OVPs[k].min /\ OVPs[k].min <= OVPs[k].MAX
          /\ OVPs[k].min < UVLs[k].MAX /\ UVLs[k].MAX < OVPs[k].MAX
    /\ \A s \in Sessions : caps[s].made =>
          /\ 0 <= caps[s].UVL.min /\ caps[s].UVL.min <= caps[s].UVL.MAX
          /\ 0 < caps[s].OVP.min /\ caps[s].OVP.min < caps[s].UVL.MAX
          /\ caps[s].UVL.MAX < caps[s].VOL.MAX /\ caps[s].VOL.MAX < caps[s].OVP.MAX

\* a session of a GEN6 supply exists: UVL up to 5.7 V, OVP from 0.5 V
C23_Witness ==
    /\ caps[Primary].made
    /\ caps[Primary].UVL.MAX = milli(5700) /\ caps[Primary].OVP.min = milli(500)

\* C24: the argument of every PV, PC, OVP or UVL frame written has exactly
\* three digits after the decimal point, and the number it denotes differs
\* from the value the method was called with by at most 0.0005.
C24_ThreeDecimalsNearest ==
    \A i \in 1..Len(call.wire) : \A tok \in {PV_, PC_, OVP_, UVL_} :
        IsPrefix(tok, call.wire[i]) =>
            LET text == SubSeq(call.wire[i], Len(tok) + 1, Len(call.wire[i]) - 1)
                dot  == IndexOf(text, ".")
            IN  /\ dot > 1 /\ Len(text) = dot + 3
                /\ AllDigits(SubSeq(text, 1, dot - 1))
                /\ AllDigits(SubSeq(text, dot + 1, Len(text)))
                /\ call.val.type \in {"int", "float"}
                /\ 2 * (ParseFloat(text).val - call.val.val) <= Sub
                /\ 2 * (call.val.val - ParseFloat(text).val) <= Sub

\* a voltage half way between two wire values was programmed, and the frame
\* carries the wire value 0.0005 above it
C24_Witness ==
    /\ call.op = "program_voltage" /\ call.exc = "none"
    /\ \E i \in 1..Len(call.wire) :
          /\ IsPrefix(PV_, call.wire[i])
          /\ 2 * (ArgOf(PV_, call.wire[i]) - call.val.val) = Sub

---------------------------------------------------------------------------
(* Properties of the setters and getters, and of the registry across ports *)
(* (SpecMethods, SpecStatic)                                               *)

\* C25: get_filter_frequency, called right after set_filter_frequency(hz)
\* returned, issues its query and returns without raising.
C25_FilterFrequencyReadBack ==
    [][(/\ call.op = "set_filter_frequency" /\ call.exc = "none"
        /\ call'.op = "get_filter_frequency" /\ ~call'.faulty) =>
          /\ call'.exc = "none"
          /\ call'.wire # <<>>]_vars

\* C26: a setter called with an argument of the wrong type raises TypeError,
\* one called with a value it does not recognise raises ValueError, in both
\* cases with nothing written or read and with the registry, last_command
\* and last_response as they were.
C26_SettersValidateFirst ==
    [][LET op      == call'.op
           arg     == call'.val
           binary  == {"set_power_state", "set_foldback_state", "set_autostart_state"}
           bytes   == {"set_additional_foldback_delay", "set_register_fault_enable",
                       "set_register_status_condition"}
           numeric == {"program_voltage", "program_amperage",
                       "program_over_voltage_protection", "program_under_voltage_limit"}
           wrongType ==
               \/ op \in binary \cup {"set_remote_mode"} /\ arg.type # "str"
               \/ op \in bytes \cup {"set_filter_frequency"} /\ arg.type # "int"
               \/ op \in numeric /\ arg.type \notin {"int", "float"}
           unknown ==
               \/ /\ op = "set_remote_mode" /\ arg.type = "str"
                  /\ upper(arg.val) \notin {<<"L", "O", "C">>, <<"R", "E", "M">>,
                                            <<"L", "L", "O">>}
               \/ /\ op \in binary /\ arg.type = "str"
                  /\ upper(arg.val) \notin {<<"O", "N">>, <<"O", "F", "F">>}
               \/ op = "set_filter_frequency" /\ arg.type = "int" /\ arg.val \notin {18, 23, 46}
               \/ op \in bytes /\ arg.type = "int" /\ arg.val \notin 0..255
           untouched ==
               /\ call'.wire = <<>> /\ call'.rx = <<>> /\ call'.log = <<>>
               /\ listening_addresses' = listening_addresses
               /\ last_command' = last_command
               /\ last_response' = last_response
       IN  /\ wrongType => call'.exc = "TypeError" /\ untouched
           /\ unknown => call'.exc = "ValueError" /\ untouched]_vars

\* set_power_state('UP') was rejected with nothing written, on a port whose
\* registry entry and whose session's last command exist
C26_Witness ==
    /\ call.op = "set_power_state" /\ call.val.type = "str" /\ call.exc = "ValueError"
    /\ call.wire = <<>>
    /\ "COM4" \in DOMAIN listening_addresses
    /\ last_command[Primary] # <<>>

\* C27: the registry holds at most one address per port, each in 0..30; a
\* call never removes an entry and never changes the entry of a port other
\* than its own; an entry is created or overwritten only by an addressed
\* command, which writes the ADR frame and leaves its own address.
C27_RegistryPerTransport ==
    [][/\ DOMAIN listening_addresses' \subseteq Ports
       /\ DOMAIN listening_addresses \subseteq DOMAIN listening_addresses'
       /\ \A p \in DOMAIN listening_addresses' :
             /\ listening_addresses'[p] \in 0..30
             /\ p # call'.s.port =>
                   /\ p \in DOMAIN listening_addresses
                   /\ listening_addresses'[p] = listening_addresses[p]
       /\ listening_addresses' # listening_addresses =>
             /\ call'.op \notin FastMethods \cup GroupMethods
             /\ call'.wire # <<>> /\ IsADR(call'.wire[1])
             /\ listening_addresses'[call'.s.port] = call'.s.address]_vars

\* both ports have an entry, and the entry of COM4, first created for
\* address 0, has been overwritten with 30
C27_Witness ==
    /\ DOMAIN listening_addresses = Ports
    /\ caps[Primary].made
    /\ listening_addresses["COM4"] = 30
    /\ listening_addresses["COM5"] = 30

\* C28: get_registers_fast returns a complete 16-byte frame and
\* get_power_on_time a complete 12-byte frame, each ending in '$', two hex
\* digits and '\r'; nothing shorter is returned.
C28_CompleteFrames ==
    (call.op \in {"get_registers_fast", "get_power_on_time"} /\ call.exc = "none") =>
        LET n == IF call.op = "get_registers_fast" THEN 16 ELSE 12
            b == call.ret.val
            hexDigit(x) == x \in 48..57 \cup 65..70
        IN  /\ call.ret.type = "bytes"
            /\ Len(b) = n
            /\ b[n] = 13 /\ b[n - 3] = 36
            /\ hexDigit(b[n - 2]) /\ hexDigit(b[n - 1])

\* C29: multi_drop_installed returns True exactly when the reply to 'MDAV?'
\* is 1.
C29_InstalledIffOne ==
    (call.op = "multi_drop_installed" /\ call.exc = "none") =>
        (call.ret.val <=> call.rx[Len(call.rx)] = <<"1", CR>>)

\* C30: before every frame other than an ADR frame that a session's method
\* writes to its port, the last ADR frame written to that port, in this call
\* or in an earlier one, carries the session's address.
C30_LastADRNamesTheWriter ==
    [][call'.op \notin FastMethods \cup GroupMethods \cup {"none", "configure"} =>
          \A i \in 1..Len(call'.wire) :
              ~IsADR(call'.wire[i]) =>
                  IF \E j \in 1..(i - 1) : IsADR(call'.wire[j])
                  THEN \A j \in 1..(i - 1) :
                          (IsADR(call'.wire[j]) /\ \A k \in (j + 1)..(i - 1) :
                                                      ~IsADR(call'.wire[k]))
                              => AdrOf(call'.wire[j]) = call'.s.address
                  ELSE bus[call'.s.port] = call'.s.address]_vars

\* right after a fast query, Primary's command found the port addressed to
\* the other supply and wrote its own ADR frame first
C30_Witness ==
    /\ call.afterFast /\ call.s = Primary /\ call.op = "multi_drop_installed"
    /\ Len(call.wire) = 2 /\ IsADR(call.wire[1]) /\ ~IsADR(call.wire[2])
    /\ bus["COM4"] = 0

---------------------------------------------------------------------------
(* Properties of one call of the command channel (Spec, SpecMethods)       *)

\* C31: within one call of command_imperative, command_interrogative or
\* repeat_last_command at most one ADR frame is written, first, and at most
\* one command frame; a constructor writes no frame twice; and when the
\* reply to the ADR frame is not "OK" the call raises with the ADR frame the
\* only frame written.
C31_NoRetryNoCommandAfterFailedADR ==
    LET w == call.wire
    IN  /\ \A i \in 2..Len(w) : ~IsADR(w[i])
        /\ \A i, j \in 1..Len(w) : i # j => w[i] # w[j]
        /\ call.op \in {"command_imperative", "command_interrogative",
                        "repeat_last_command"}
               => Len(w) <= (IF w # <<>> /\ IsADR(w[1]) THEN 2 ELSE 1)
        /\ call.op = "__init__" => Len(w) <= (IF w # <<>> /\ IsADR(w[1]) THEN 3 ELSE 2)
        /\ (w # <<>> /\ IsADR(w[1]) /\ Remove(call.rx[1], CR) # OK)
               => call.exc = "AssertionError" /\ Len(w) = 1 /\ Len(call.rx) = 1

\* a query whose ADR frame got no answer: the call raised and the query was
\* never written
C31_Witness ==
    /\ call.op = "command_interrogative" /\ call.cmd = <<"S", "N", "?">>
    /\ Len(call.wire) = 1 /\ IsADR(call.wire[1])
    /\ call.rx = <<<<>>>>
    /\ call.exc = "AssertionError"

\* C32: the events of an addressed call are write, sleep 0.150, read, once
\* per frame written: once when the call does not re-address and returns,
\* twice when it re-addresses and returns.
C32_WriteSettleRead ==
    LET triple == <<"write", "sleep 0.150", "read">>
    IN  /\ Len(call.log) = 3 * Len(call.wire)
        /\ Len(call.rx) = Len(call.wire)
        /\ \A i \in 1..Len(call.log) : call.log[i] = triple[((i - 1) % 3) + 1]
        /\ (call.op \in {"command_imperative", "command_interrogative",
                         "repeat_last_command"} /\ call.exc = "none")
               => Len(call.wire) = (IF IsADR(call.wire[1]) THEN 2 ELSE 1)

\* a query that re-addressed: six events
C32_Witness ==
    /\ call.op = "command_interrogative" /\ call.exc = "none"
    /\ Len(call.wire) = 2 /\ IsADR(call.wire[1])
    /\ call.log = <<"write", "sleep 0.150", "read", "write", "sleep 0.150", "read">>

\* C33: every text frame written, by an imperative, a query,
\* repeat_last_command or a group command, ends with '\r' and holds no
\* other '\r'.
C33_OneTerminator ==
    call.op \notin FastMethods =>
        \A i \in 1..Len(call.wire) :
            LET f == call.wire[i]
            IN  /\ f # <<>> /\ f[Len(f)] = CR
                /\ \A k \in 1..(Len(f) - 1) : f[k] # CR

\* C34: after a call of command_imperative, command_interrogative or
\* repeat_last_command that wrote a frame, or a constructor that returned,
\* the session's last_response is the last line read with every '\r'
\* removed and its last_command is the last frame the call wrote: the ADR
\* frame when the addressing failed.
C34_LastCommandLastResponse ==
    (/\ call.wire # <<>>
     /\ \/ call.op \in {"command_imperative", "command_interrogative", "repeat_last_command"}
        \/ call.op = "__init__" /\ call.exc = "none") =>
        /\ last_command[call.s] = call.wire[Len(call.wire)]
        /\ last_response[call.s] = Remove(call.rx[Len(call.rx)], CR)
        /\ \A k \in 1..Len(last_response[call.s]) : last_response[call.s][k] # CR
        /\ (IsADR(call.wire[1]) /\ Remove(call.rx[1], CR) # OK)
               => last_command[call.s] = AdrFrame(call.s.address)

\* an imperative whose ADR frame got no answer: last_command is the ADR
\* frame and last_response is empty
C34_Witness ==
    /\ call.op = "command_imperative" /\ call.exc = "AssertionError"
    /\ call.wire = <<AdrFrame(call.s.address)>>
    /\ last_command[call.s] = AdrFrame(call.s.address)
    /\ last_response[call.s] = <<>>

---------------------------------------------------------------------------
(* Properties of the values written and of the envelopes (SpecRound,       *)
(* SpecRange, SpecStatic)                                                  *)

\* C35: the value x of every 'PV x' frame written satisfies
\* UVL_now / 0.95 <= x <= OVP_now / 1.05, the value of every 'OVP x' frame
\* PV_now * 1.05 <= x, and the value of every 'UVL x' frame
\* x <= PV_now * 0.95, with the values the supply holds.
C35_WrittenValueInRange ==
    \A i \in 1..Len(call.wire) :
        LET f == call.wire[i]
            d == dev[call.s]
        IN  /\ IsPrefix(PV_, f) =>
                  /\ d.UVL * 20 <= ArgOf(PV_, f) * 19
                  /\ ArgOf(PV_, f) * 21 <= d.OVP * 20
            /\ IsPrefix(OVP_, f) => d.PV * 21 <= ArgOf(OVP_, f) * 20
            /\ IsPrefix(UVL_, f) => ArgOf(UVL_, f) * 20 <= d.PV * 19

\* C36: the envelope of a session, once set by its constructor, is changed
\* by no call; an envelope changes only in a constructor that returns, and
\* only for the session it creates; and every envelope holds the OVP and UVL
\* entries of the tables for its class.
C36_EnvelopeFixed ==
    [][\A t \in Sessions :
          /\ caps[t].made => caps'[t] = caps[t]
          /\ caps'[t] # caps[t] =>
                call'.op = "__init__" /\ call'.exc = "none" /\ call'.s = t
          /\ caps'[t].made =>
                /\ caps'[t].OVP = OVPs[ModelKey(<<"4", "0">>)]
                /\ caps'[t].UVL = UVLs[ModelKey(<<"4", "0">>)]]_vars

\* both sessions exist and a protection has been programmed
C36_Witness ==
    /\ caps[Primary].made /\ caps[Secondary].made
    /\ call.op = "program_over_voltage_protection" /\ call.exc = "none"
    /\ dev[Primary].OVP # caps[Primary].OVP.MAX

\* C37: a fast query called with an address that is not an int or not in
\* 0..30 raises TypeError or ValueError with nothing written or read and the
\* port, its timeout included, as it was.
C37_FastQueryValidatesFirst ==
    [][(/\ call'.op \in FastMethods
        /\ call'.val.type # "int" \/ call'.val.val \notin 0..30) =>
          /\ call'.exc \in {"TypeError", "ValueError"}
          /\ call'.wire = <<>> /\ call'.rx = <<>> /\ call'.log = <<>>
          /\ serial_port' = serial_port]_vars

\* get_registers_fast(serial_port, 42) was rejected on a port configured
\* with a timeout of 2 s
C37_Witness ==
    /\ call.op = "get_registers_fast" /\ call.val = PyInt(42)
    /\ call.exc = "ValueError" /\ call.wire = <<>>
    /\ serial_port["COM4"].timeout = 2

=============================================================================
